---- MODULE Spec2Model ----
(***************************************************************************)
(* Model of the AiiA automation engine (app/lib/automation-engine.ts) and  *)
(* of the enhanced market data service (app/lib/enhanced-market-data.ts).  *)
(*                                                                         *)
(* The specifications below share one set of variables:                    *)
(*   SpecEval     evaluateAutomationSignal as a decision over its inputs   *)
(*   Spec         generateAutomatedAnalysis calls interleaving at awaits   *)
(*   SpecRL       checkRateLimit calls against the clock                   *)
(*   SpecDD       debounceRequest and deduplicateRequest on their own      *)
(*   SpecMD       searchAssets and getAssetDetails over both of them       *)
(*   SpecCache    getCachedData / setCachedData against the clock          *)
(*   SpecScore    the confidence scorers and the two calculateRSI          *)
(*   SpecSettings the POST handler of the automation settings route        *)
(***************************************************************************)
EXTENDS Integers, Sequences, FiniteSets, TLC

VARIABLES
    \* ---- evaluateAutomationSignal in isolation
    evIn,             \* the arguments of one evaluateAutomationSignal call
    evOut,            \* what the call returned
    \* ---- a scorer, an indicator or a route handler in isolation
    scIn,             \* the arguments of one call
    scOut,            \* what the call returned
    \* ---- AutomationEngine
    runningAnalyses,  \* AutomationEngine.runningAnalyses : Set<string>
    call,             \* one record per generateAutomatedAnalysis invocation
    users,            \* prisma.user rows, userId -> settings
    trades,           \* prisma.trade rows created today
    alerts,           \* prisma.alert rows
    activities,       \* prisma.activity rows
    analyses,         \* prisma.analysis rows
    \* ---- EnhancedMarketDataService
    now,              \* Date.now(), in milliseconds
    cache,            \* EnhancedMarketDataService.cache
    rateLimits,       \* EnhancedMarketDataService.rateLimits
    timers,           \* the runtime's pending setTimeout timers
    debounceTimers,   \* EnhancedMarketDataService.debounceTimers
    pendingRequests,  \* EnhancedMarketDataService.pendingRequests
    req,              \* the promises handed to callers, one record per call
    ops,              \* the operations started, one record per execution
    rlLog,            \* the checkRateLimit calls made so far and their answers
    read              \* the last getCachedData call and its answer

evalVars == <<evIn, evOut, scIn, scOut>>
engVars  == <<runningAnalyses, call, users, trades, alerts, activities, analyses>>
mdVars   == <<now, cache, rateLimits, timers, debounceTimers, pendingRequests,
              req, ops, rlLog, read>>
vars     == <<evIn, evOut, scIn, scOut, runningAnalyses, call, users, trades, alerts,
              activities, analyses, now, cache, rateLimits, timers,
              debounceTimers, pendingRequests, req, ops, rlLog, read>>

----------------------------------------------------------------------------
\* Bounds of the model
MaxToday   == 5     \* largest answer of prisma.trade.count that is enumerated
MaxLimit   == 5     \* largest maxTradesPerDay that is enumerated
NumCalls   == 2     \* generateAutomatedAnalysis invocations per behaviour
SeedTrades == 1     \* trades already executed today when the engine starts
EngLimit   == 1     \* largest maxTradesPerDay of a user in the engine runs

\* JavaScript's undefined (where an id string is expected) and null
Undefined == "undefined"
Null      == [kind |-> "null"]

\* obj.name in JavaScript: undefined when the property is absent
Field(obj, name) == IF name \in DOMAIN obj THEN obj[name] ELSE Undefined

Recommendations == {"BUY", "SELL", "HOLD"}
Confidences     == {70, 75, 80, 85}
Thresholds      == {75, 80}

----------------------------------------------------------------------------
\* evaluateAutomationSignal
\* mutant of isBuySignal: the threshold itself no longer qualifies
isBuySignalStrict(analysis, userSettings) ==
    /\ analysis.recommendation = "BUY"
    /\ analysis.confidence > userSettings.buyConfidenceThreshold

isBuySignal(analysis, userSettings) ==
    /\ analysis.recommendation = "BUY"
    /\ analysis.confidence >= userSettings.buyConfidenceThreshold

isSellSignal(analysis, userSettings) ==
    /\ analysis.recommendation = "SELL"
    /\ analysis.confidence >= userSettings.sellConfidenceThreshold

\* TRUE when the function goes on to query prisma.trade.count
passesThreshold(analysis, userSettings) ==
    isBuySignal(analysis, userSettings) \/ isSellSignal(analysis, userSettings)

\* mutant of overDailyLimit: a count equal to the limit still passes
overDailyLimitOffByOne(todayTrades, userSettings) ==
    todayTrades > userSettings.maxTradesPerDay

overDailyLimit(todayTrades, userSettings) ==
    todayTrades >= userSettings.maxTradesPerDay

\* todayTrades is the answer of prisma.trade.count for the query of l.357-364
evaluateAutomationSignal(analysis, userSettings, asset, assetData, todayTrades) ==
    IF ~passesThreshold(analysis, userSettings) THEN Null
    ELSE IF overDailyLimit(todayTrades, userSettings) THEN Null
    ELSE [kind           |-> "signal",
          assetId        |-> asset.id,
          symbol         |-> asset.symbol,
          action         |-> IF isBuySignal(analysis, userSettings)
                             THEN "BUY" ELSE "SELL",
          confidence     |-> analysis.confidence,
          currentPrice   |-> assetData.price,
          recommendation |-> analysis.recommendation,
          userId         |-> Field(userSettings, "id")]

----------------------------------------------------------------------------
\* SpecEval: one evaluateAutomationSignal call on enumerated arguments
Pending == [kind |-> "pending"]

\* the row prisma.user.findUnique returns for the select of l.53-63: the
\* selection names nine fields and id is not among them
selectedSettings(row) ==
    [buyConfidenceThreshold  |-> row.buyConfidenceThreshold,
     sellConfidenceThreshold |-> row.sellConfidenceThreshold,
     maxTradeAmountAuto      |-> row.maxTradeAmountAuto,
     maxTradesPerDay         |-> row.maxTradesPerDay,
     stopLossPercent         |-> row.stopLossPercent,
     takeProfitPercent       |-> row.takeProfitPercent,
     requireManualConfirm    |-> row.requireManualConfirm,
     tradingMode             |-> row.tradingMode]

EvalInputs ==
    [recommendation          : Recommendations,
     confidence              : Confidences,
     buyConfidenceThreshold  : Thresholds,
     sellConfidenceThreshold : Thresholds,
     maxTradesPerDay         : 0..MaxLimit,
     todayTrades             : 0..MaxToday]

evSettings(in) ==
    selectedSettings([buyConfidenceThreshold  |-> in.buyConfidenceThreshold,
                      sellConfidenceThreshold |-> in.sellConfidenceThreshold,
                      maxTradeAmountAuto      |-> 500,
                      maxTradesPerDay         |-> in.maxTradesPerDay,
                      stopLossPercent         |-> 5,
                      takeProfitPercent       |-> 10,
                      requireManualConfirm    |-> FALSE,
                      tradingMode             |-> "PAPER"])

EngIdle ==
    /\ runningAnalyses = {}
    /\ call = <<>>
    /\ users = <<>>
    /\ trades = {}
    /\ alerts = {}
    /\ activities = {}
    /\ analyses = {}

\* the market data service as constructed: empty maps, nothing requested
\* no getCachedData call was made
NoRead == [kind |-> "none"]

\* no scorer was called
NoScore == [kind |-> "none"]

MdIdle ==
    /\ now = 0
    /\ cache = <<>>
    /\ rateLimits = <<>>
    /\ timers = {}
    /\ debounceTimers = <<>>
    /\ pendingRequests = <<>>
    /\ req = <<>>
    /\ ops = <<>>
    /\ rlLog = <<>>
    /\ read = NoRead

EvalIdle ==
    /\ evIn = [recommendation |-> "HOLD", confidence |-> 70,
               buyConfidenceThreshold |-> 75, sellConfidenceThreshold |-> 80,
               maxTradesPerDay |-> 0, todayTrades |-> 0]
    /\ evOut = Pending
    /\ scIn = NoScore
    /\ scOut = NoScore

InitEval ==
    /\ evIn \in EvalInputs
    /\ evOut = Pending
    /\ scIn = NoScore
    /\ scOut = NoScore
    /\ EngIdle
    /\ MdIdle

Evaluate ==
    /\ evOut = Pending
    /\ evOut' = evaluateAutomationSignal(
                    [recommendation |-> evIn.recommendation,
                     confidence     |-> evIn.confidence],
                    evSettings(evIn),
                    [id |-> "asset-1", symbol |-> "AAPL"],
                    [price |-> 100],
                    evIn.todayTrades)
    /\ UNCHANGED <<evIn, scIn, scOut, engVars, mdVars>>

NextEval == Evaluate

SpecEval == InitEval /\ [][NextEval]_vars

----------------------------------------------------------------------------
\* Spec: generateAutomatedAnalysis invocations on the one AutomationEngine
\* instance; an action is the code between two awaits that touch shared state
CallIds     == 1..NumCalls
UserIds     == {"u1", "u2"}
NoSuchUser  == "u0"
KnownAssets == {"AAPL", "IBM"}
NoSuchAsset == "ZZZ"

\* the demo user of scripts/seed.ts
SeedUser ==
    [buyConfidenceThreshold  |-> 75,
     sellConfidenceThreshold |-> 80,
     maxTradeAmountAuto      |-> 500,
     maxTradesPerDay         |-> 5,
     stopLossPercent         |-> 5,
     takeProfitPercent       |-> 10,
     requireManualConfirm    |-> TRUE,
     tradingMode             |-> "PAPER"]

\* what user u1 has stored through the settings route: manual confirmation
\* kept on, or switched off with a daily limit, a trading mode and the seeded
\* or another pair of risk percentages
AutomationSettings ==
    {SeedUser}
    \cup {[SeedUser EXCEPT !.maxTradesPerDay = limit,
                           !.requireManualConfirm = FALSE,
                           !.tradingMode = mode,
                           !.stopLossPercent = risk[1],
                           !.takeProfitPercent = risk[2]]
            : limit \in 0..EngLimit, mode \in {"PAPER", "LIVE"},
              risk \in {<<5, 10>>, <<2, 25>>}}

\* analysisKey = `${symbol}-${userId}`
analysisKey(symbol, userId) == <<symbol, userId>>

\* mutant of startAnalysis: the key is never recorded
startAnalysisForgets(running, key) == running

\* this.runningAnalyses.add(analysisKey)
startAnalysis(running, key) == running \cup {key}

\* mutant of endAnalysis: the key stays in the set
endAnalysisKeeps(running, key) == running

\* this.runningAnalyses.delete(analysisKey) of the finally block
endAnalysis(running, key) == running \ {key}

\* prisma.trade.count({ where: { userId, executedAt: { gte: today } } }): every
\* row of trades was executed today; a filter value of undefined is no filter
countTradesToday(userId) ==
    Cardinality({t \in trades : userId = Undefined \/ t.userId = userId})

\* trades made today on behalf of user u, whatever userId the row carries
tradesOnBehalfOf(u) == Cardinality({t \in trades : t.owner = u})

IdleCall ==
    [pc |-> "idle", symbol |-> "", userId |-> "", busy |-> FALSE,
     analysis |-> Null, signal |-> Null, error |-> ""]

InFlight == {"loading", "evaluating", "saving", "processing", "risk", "logging"}

\* evaluations of the key that are running, as the call states show them
runningFor(key) ==
    {d \in CallIds : /\ call[d].pc \in InFlight
                     /\ analysisKey(call[d].symbol, call[d].userId) = key}

Init ==
    /\ EvalIdle
    /\ MdIdle
    /\ runningAnalyses = {}
    /\ call = [c \in CallIds |-> IdleCall]
    /\ \E settings \in AutomationSettings :
         users = [u \in UserIds |-> IF u = "u1" THEN settings ELSE SeedUser]
    /\ \E n \in 0..SeedTrades :
         trades = {[by |-> 0, n |-> k, userId |-> "u2", owner |-> "u2", before |-> 0]
                      : k \in 1..n}
    /\ alerts = {}
    /\ activities = {}
    /\ analyses = {}

\* l.41-47: the in-progress check and the marking, before the first await
Begin(c, symbol, userId) ==
    /\ call[c].pc = "idle"
    /\ \A d \in CallIds : d < c => call[d].pc # "idle"
    /\ LET key  == analysisKey(symbol, userId)
           busy == runningFor(key) # {}
       IN IF key \in runningAnalyses
          THEN /\ call' = [call EXCEPT ![c] =
                             [IdleCall EXCEPT !.pc = "rejected", !.symbol = symbol,
                                              !.userId = userId, !.busy = busy,
                                              !.error = "Analysis already in progress for this asset"]]
               /\ UNCHANGED runningAnalyses
          ELSE /\ call' = [call EXCEPT ![c] =
                             [IdleCall EXCEPT !.pc = "loading", !.symbol = symbol,
                                              !.userId = userId, !.busy = busy]]
               /\ runningAnalyses' = startAnalysis(runningAnalyses, key)
    /\ UNCHANGED <<evalVars, mdVars, users, trades, alerts, activities, analyses>>

\* mutant of Throw: the stack unwinds past the finally block
ThrowSkipsFinally(c, message) ==
    /\ call' = [call EXCEPT ![c].pc = "threw", ![c].error = message]
    /\ UNCHANGED runningAnalyses

\* a throw inside the try block: the finally block runs, the call rejects
Throw(c, message) ==
    /\ call' = [call EXCEPT ![c].pc = "threw", ![c].error = message]
    /\ runningAnalyses' = endAnalysis(runningAnalyses,
                                      analysisKey(call[c].symbol, call[c].userId))

\* l.51-102: the user row, the asset row, the market data and the generated
\* analysis; outcome is what the market data and the analysis service answer
Load(c, outcome) ==
    /\ call[c].pc = "loading"
    /\ IF call[c].userId \notin DOMAIN users
       THEN Throw(c, "User not found")
       ELSE IF call[c].symbol \notin KnownAssets
       THEN Throw(c, "Asset not found")
       ELSE IF outcome.kind = "nodata"
       THEN Throw(c, "Asset data not available")
       ELSE IF outcome.kind = "aifailed"
       THEN Throw(c, "Enhanced AI analysis failed")
       ELSE /\ call' = [call EXCEPT ![c].pc = "evaluating",
                                    ![c].analysis = outcome]
            /\ UNCHANGED runningAnalyses
    /\ UNCHANGED <<evalVars, mdVars, users, trades, alerts, activities, analyses>>

LoadOutcomes ==
    {[kind |-> "nodata"], [kind |-> "aifailed"]}
    \cup [kind : {"analysis"}, recommendation : Recommendations, confidence : {80}]
    \cup {[kind |-> "analysis", recommendation |-> "BUY", confidence |-> 70]}

\* l.105-110: evaluateAutomationSignal with the count it reads from the store
EvaluateSignal(c) ==
    /\ call[c].pc = "evaluating"
    /\ LET user == selectedSettings(users[call[c].userId])
       IN call' = [call EXCEPT
            ![c].pc = "saving",
            ![c].signal = evaluateAutomationSignal(
                              call[c].analysis, user,
                              [id |-> call[c].symbol, symbol |-> call[c].symbol],
                              [price |-> 100],
                              countTradesToday(Field(user, "id")))]
    /\ UNCHANGED <<evalVars, mdVars, runningAnalyses, users, trades, alerts, activities,
                   analyses>>

\* mutant of triggersAutomation: manual confirmation is not looked at
triggersAutomationUnconfirmed(signal, user) == signal # Null

\* l.132: whether processAutomationSignal is called
triggersAutomation(signal, user) ==
    signal # Null /\ ~user.requireManualConfirm

\* l.113-129: prisma.analysis.create
SaveAnalysis(c) ==
    /\ call[c].pc = "saving"
    /\ analyses' = analyses \cup {[by |-> c, symbol |-> call[c].symbol]}
    /\ call' = [call EXCEPT ![c].pc =
                  IF triggersAutomation(call[c].signal, users[call[c].userId])
                  THEN "processing" ELSE "logging"]
    /\ UNCHANGED <<evalVars, mdVars, runningAnalyses, users, trades, alerts, activities>>

\* mutant of tradeSucceeds: live trading no longer throws
tradeSucceedsLive(userSettings) == TRUE

\* l.394-399 with l.538-542: executeSimulatedTrade is reached in PAPER mode
\* only, executeLiveTrade throws 'Live trading not implemented yet'
tradeSucceeds(userSettings) == userSettings.tradingMode = "PAPER"

\* l.384-399 and 404-416: processAutomationSignal up to the trade; a PAPER
\* trade is created by executeSimulatedTrade, anything else throws in
\* executeLiveTrade and is logged by the catch block
ExecuteTrade(c) ==
    /\ call[c].pc = "processing"
    /\ LET signal == call[c].signal
           owner  == call[c].userId
       IN IF tradeSucceeds(selectedSettings(users[owner]))
          THEN /\ trades' = trades \cup
                     {[by |-> c, n |-> 1, userId |-> signal.userId, owner |-> owner,
                       before |-> tradesOnBehalfOf(owner)]}
               /\ activities' = activities \cup
                     {[by |-> c, userId |-> signal.userId, type |-> "AUTO_TRADE_EXECUTED"]}
               /\ call' = [call EXCEPT ![c].pc = "risk"]
          ELSE /\ activities' = activities \cup
                     {[by |-> c, userId |-> signal.userId, type |-> "AUTOMATION_ERROR"]}
               /\ call' = [call EXCEPT ![c].pc = "logging"]
               /\ UNCHANGED trades
    /\ UNCHANGED <<evalVars, mdVars, runningAnalyses, users, alerts, analyses>>

\* mutant of stopLossPrice: a SELL gets the stop-loss of a BUY
stopLossPriceBuyOnly(signal, userSettings) ==
    signal.currentPrice * (100 - userSettings.stopLossPercent)

\* l.546-548, in cents: currentPrice is in dollars and the percentage a whole
\* number, so the product with 100 -/+ percent is the exact price in cents
stopLossPrice(signal, userSettings) ==
    IF signal.action = "BUY"
    THEN signal.currentPrice * (100 - userSettings.stopLossPercent)
    ELSE signal.currentPrice * (100 + userSettings.stopLossPercent)

\* l.550-552, in cents
takeProfitPrice(signal, userSettings) ==
    IF signal.action = "BUY"
    THEN signal.currentPrice * (100 + userSettings.takeProfitPercent)
    ELSE signal.currentPrice * (100 - userSettings.takeProfitPercent)

\* l.544-577: setupRiskManagement creates the two alerts
SetupRisk(c) ==
    /\ call[c].pc = "risk"
    /\ LET signal == call[c].signal
           userSettings == selectedSettings(users[call[c].userId])
       IN alerts' = alerts \cup
            {[by |-> c, userId |-> signal.userId, kind |-> "STOP_LOSS",
              type |-> IF signal.action = "BUY" THEN "PRICE_BELOW" ELSE "PRICE_ABOVE",
              price |-> stopLossPrice(signal, userSettings)],
             [by |-> c, userId |-> signal.userId, kind |-> "TAKE_PROFIT",
              type |-> IF signal.action = "BUY" THEN "PRICE_ABOVE" ELSE "PRICE_BELOW",
              price |-> takeProfitPrice(signal, userSettings)]}
    /\ call' = [call EXCEPT ![c].pc = "logging"]
    /\ UNCHANGED <<evalVars, mdVars, runningAnalyses, users, trades, activities, analyses>>

\* l.137-158: the ANALYSIS_GENERATED activity, the return and the finally block
LogAndReturn(c) ==
    /\ call[c].pc = "logging"
    /\ activities' = activities \cup
          {[by |-> c, userId |-> call[c].userId, type |-> "ANALYSIS_GENERATED"]}
    /\ call' = [call EXCEPT ![c].pc = "returned"]
    /\ runningAnalyses' = endAnalysis(runningAnalyses,
                                      analysisKey(call[c].symbol, call[c].userId))
    /\ UNCHANGED <<evalVars, mdVars, users, trades, alerts, analyses>>

\* the (symbol, userId) pairs the route handler passes in
Requests ==
    {<<"AAPL", "u1">>, <<"IBM", "u1">>, <<"AAPL", "u2">>,
     <<NoSuchAsset, "u1">>, <<"AAPL", NoSuchUser>>}

Next ==
    \/ \E c \in CallIds, request \in Requests : Begin(c, request[1], request[2])
    \/ \E c \in CallIds, outcome \in LoadOutcomes : Load(c, outcome)
    \/ \E c \in CallIds : EvaluateSignal(c)
    \/ \E c \in CallIds : SaveAnalysis(c)
    \/ \E c \in CallIds : ExecuteTrade(c)
    \/ \E c \in CallIds : SetupRisk(c)
    \/ \E c \in CallIds : LogAndReturn(c)

Spec == Init /\ [][Next]_vars

C2_SignalWhenQualified ==
    evOut # Pending =>
      /\ (/\ evIn.recommendation = "BUY"
          /\ evIn.confidence >= evIn.buyConfidenceThreshold
          /\ evIn.todayTrades < evIn.maxTradesPerDay)
         => (evOut.kind = "signal" /\ evOut.action = "BUY")
      /\ (/\ evIn.recommendation = "SELL"
          /\ evIn.confidence >= evIn.sellConfidenceThreshold
          /\ evIn.todayTrades < evIn.maxTradesPerDay)
         => (evOut.kind = "signal" /\ evOut.action = "SELL")
      /\ (/\ evIn.recommendation = "BUY"
          /\ evIn.confidence = 80
          /\ evIn.buyConfidenceThreshold = 75
          /\ evIn.maxTradesPerDay = 5)
         => /\ evIn.todayTrades = 2 => (evOut.kind = "signal" /\ evOut.action = "BUY")
            /\ evIn.todayTrades = 5 => evOut = Null

\* the end-to-end example of the specification, evaluated
C2_Witness ==
    /\ evIn.recommendation = "BUY"
    /\ evIn.confidence = 80
    /\ evIn.buyConfidenceThreshold = 75
    /\ evIn.todayTrades = 2
    /\ evIn.maxTradesPerDay = 5
    /\ evOut.kind = "signal"
    /\ evOut.action = "BUY"

\* rows the persistence layer holds that invocation c wrote
rowsOf(c) ==
    {r \in analyses : r.by = c} \cup {r \in trades : r.by = c}
    \cup {r \in alerts : r.by = c} \cup {r \in activities : r.by = c}

\* C3: at most one evaluation is in flight per (symbol, user) key; a call that
\* arrives while an evaluation of its key is running is rejected with the
\* 'Analysis already in progress' error, is never taken up later, and writes
\* no analysis, trade, alert or activity.
C3_OneInFlightPerKey ==
    /\ \A c, d \in CallIds :
         (c # d /\ call[c].pc \in InFlight /\ call[d].pc \in InFlight)
         => analysisKey(call[c].symbol, call[c].userId)
              # analysisKey(call[d].symbol, call[d].userId)
    /\ \A c \in CallIds :
         call[c].busy =>
           /\ call[c].pc = "rejected"
           /\ call[c].error = "Analysis already in progress for this asset"
           /\ rowsOf(c) = {}

\* a call was rejected, and the evaluation that blocked it has since returned
C3_Witness ==
    \E c, d \in CallIds :
       /\ call[c].busy
       /\ call[c].pc = "rejected"
       /\ call[d].pc = "returned"
       /\ call[d].symbol = call[c].symbol
       /\ call[d].userId = call[c].userId

\* C4: an automated trade is never created for a user while that user's
\* number of trades executed today is already at or above maxTradesPerDay,
\* under every interleaving of generateAutomatedAnalysis calls.
C4_LimitHoldsAtTrade ==
    \A t \in trades :
       t.by # 0 => t.before < users[t.owner].maxTradesPerDay

\* the alert of the given kind that invocation c created
alertOf(c, kind) == CHOOSE a \in alerts : a.by = c /\ a.kind = kind

\* invocation c has been through setupRiskManagement
riskSetUp(c) == \E a \in alerts : a.by = c

\* C22: setupRiskManagement derives both trigger prices from the signal's
\* currentPrice: for a BUY the stop-loss is price * (1 - stopLossPercent/100)
\* on a PRICE_BELOW alert and the take-profit price * (1 + takeProfitPercent/100)
\* on a PRICE_ABOVE alert, for a SELL both formulas and both directions are
\* inverted; a BUY at 100 with 5% and 10% yields 95 and 110. Prices are exact
\* and in cents.
C22_RiskTriggers ==
    \A c \in CallIds :
       riskSetUp(c) =>
          LET signal == call[c].signal
              user   == users[call[c].userId]
              stop   == alertOf(c, "STOP_LOSS")
              take   == alertOf(c, "TAKE_PROFIT")
              price  == signal.currentPrice * 100
          IN /\ Cardinality({a \in alerts : a.by = c}) = 2
             /\ signal.action = "BUY" =>
                   /\ stop.type = "PRICE_BELOW"
                   /\ stop.price * 100 = price * (100 - user.stopLossPercent)
                   /\ take.type = "PRICE_ABOVE"
                   /\ take.price * 100 = price * (100 + user.takeProfitPercent)
                   /\ (signal.currentPrice = 100 /\ user.stopLossPercent = 5
                         /\ user.takeProfitPercent = 10)
                      => (stop.price = 9500 /\ take.price = 11000)
             /\ signal.action = "SELL" =>
                   /\ stop.type = "PRICE_ABOVE"
                   /\ stop.price * 100 = price * (100 + user.stopLossPercent)
                   /\ take.type = "PRICE_BELOW"
                   /\ take.price * 100 = price * (100 - user.takeProfitPercent)

\* a SELL at 100 with 2% and 25%: the stop-loss is above and the take-profit below
C22_Witness ==
    \E c \in CallIds :
       /\ riskSetUp(c)
       /\ call[c].signal.action = "SELL"
       /\ alertOf(c, "STOP_LOSS").price = 10200
       /\ alertOf(c, "TAKE_PROFIT").price = 7500

\* the messages of the failure paths of l.66-102 and l.270-272
FailureMessages ==
    {"User not found", "Asset not found", "Asset data not available",
     "Enhanced AI analysis failed"}

\* C24 as stated: apart from the 'already in progress' rejection, no failure
\* path of generateAutomatedAnalysis ends in a thrown error; each resolves to
\* a result
C24_FailuresResolve ==
    \A c \in CallIds :
       (call[c].error # "" /\ call[c].pc # "rejected") => call[c].pc = "returned"

\* C24 amended: each of these failure paths ends in a thrown error that
\* carries the message of the path; the in-flight marker of the call is
\* removed and the call has written no analysis, trade, alert or activity
C24_FailuresThrow ==
    \A c \in CallIds :
       /\ (call[c].error # "" /\ call[c].pc # "rejected") =>
             /\ call[c].pc = "threw"
             /\ call[c].error \in FailureMessages
             /\ rowsOf(c) = {}
             /\ (analysisKey(call[c].symbol, call[c].userId) \in runningAnalyses
                   => runningFor(analysisKey(call[c].symbol, call[c].userId)) # {})
       /\ call[c].pc = "returned" => call[c].error = ""

\* all four failure paths cannot be in one run of two calls: the failure of
\* the analysis service, next to a call for an unknown user
C24_Witness ==
    \E c, d \in CallIds :
       /\ call[c].pc = "threw" /\ call[c].error = "Enhanced AI analysis failed"
       /\ call[d].pc = "threw" /\ call[d].error = "User not found"

\* a step in which invocation c is turned away as 'already in progress'
rejectedNow(c) == call[c].pc = "idle" /\ call'[c].pc = "rejected"

\* a step in which invocation c ends, by returning or by throwing
endsNow(c) == call[c].pc \in InFlight /\ call'[c].pc \in {"returned", "threw"}

\* C27: the in-flight marker of a (symbol, user) key is removed when the
\* evaluation that set it ends, whether it returned or threw, so the marker is
\* there exactly while an evaluation of the key is running and a later request
\* for the key is accepted; a request rejected as 'already in progress' leaves
\* the markers as they are
C27_MarkerFollowsEvaluation ==
    /\ [](\A request \in Requests :
             analysisKey(request[1], request[2]) \in runningAnalyses
             <=> runningFor(analysisKey(request[1], request[2])) # {})
    /\ [][\A c \in CallIds :
             /\ rejectedNow(c) => runningAnalyses' = runningAnalyses
             /\ endsNow(c) =>
                   analysisKey(call[c].symbol, call[c].userId) \notin runningAnalyses'
         ]_vars

\* an evaluation threw, and a later request for its key was accepted and has
\* returned
C27_Witness ==
    \E c, d \in CallIds :
       /\ c < d
       /\ call[c].pc = "threw"
       /\ call[d].pc = "returned"
       /\ call[d].symbol = call[c].symbol
       /\ call[d].userId = call[c].userId
       /\ runningAnalyses = {}

\* invocation c created a trade or a risk alert
automated(c) == (\E t \in trades : t.by = c) \/ (\E a \in alerts : a.by = c)

\* invocation c wrote its analysis record and its ANALYSIS_GENERATED activity
analysisRecorded(c) ==
    /\ \E r \in analyses : r.by = c
    /\ \E a \in activities : a.by = c /\ a.type = "ANALYSIS_GENERATED"

\* C28: generateAutomatedAnalysis creates a trade and risk alerts only when a
\* signal was emitted and the user's requireManualConfirm is false; when
\* requireManualConfirm is true, or when no signal was emitted, no trade and
\* no alert is created, while the analysis record and the ANALYSIS_GENERATED
\* activity are still written and the call returns with the signal it holds
C28_AutomationNeedsSignalAndConsent ==
    \A c \in CallIds :
       /\ automated(c) =>
             /\ call[c].signal # Null
             /\ ~users[call[c].userId].requireManualConfirm
       /\ (/\ call[c].pc \in {"logging", "returned"}
           /\ \/ call[c].signal = Null
              \/ users[call[c].userId].requireManualConfirm)
          => /\ ~automated(c)
             /\ \E r \in analyses : r.by = c
             /\ call[c].pc = "returned" => analysisRecorded(c)

\* a user who kept manual confirmation got a signal back and nothing was
\* traded, and a user who switched it off got no signal and nothing was traded
C28_Witness ==
    \E c, d \in CallIds :
       /\ call[c].pc = "returned" /\ call[d].pc = "returned"
       /\ users[call[c].userId].requireManualConfirm
       /\ call[c].signal # Null
       /\ ~users[call[d].userId].requireManualConfirm
       /\ call[d].signal = Null
       /\ analysisRecorded(c) /\ analysisRecorded(d)
       /\ ~automated(c) /\ ~automated(d)

\* invocation c called processAutomationSignal and is past the trade
processed(c) ==
    /\ call[c].pc \in {"risk", "logging", "returned"}
    /\ triggersAutomation(call[c].signal, users[call[c].userId])

\* C29: processAutomationSignal creates the stop-loss and take-profit alerts
\* only after the trade was created; when the trade fails, as it always does
\* when tradingMode is not PAPER, no trade and no alert is created, an
\* AUTOMATION_ERROR activity is recorded, and generateAutomatedAnalysis does
\* not throw: it goes on to log and return with the signal
C29_AlertsFollowTrade ==
    \A c \in CallIds :
       /\ (\E a \in alerts : a.by = c) => (\E t \in trades : t.by = c)
       /\ automated(c) => users[call[c].userId].tradingMode = "PAPER"
       /\ (processed(c) /\ ~(\E t \in trades : t.by = c))
          => /\ \E a \in activities : a.by = c /\ a.type = "AUTOMATION_ERROR"
             /\ call[c].pc \in {"logging", "returned"}
             /\ call[c].signal # Null
       /\ call[c].pc = "threw" => rowsOf(c) = {}

\* a LIVE user's signal was processed: the error activity is there, no trade
\* and no alert is, and the call returned with the signal
C29_Witness ==
    \E c \in CallIds :
       /\ call[c].pc = "returned"
       /\ users[call[c].userId].tradingMode = "LIVE"
       /\ call[c].signal # Null
       /\ processed(c)
       /\ ~automated(c)
       /\ \E a \in activities : a.by = c /\ a.type = "AUTOMATION_ERROR"
       /\ analysisRecorded(c)

\* invocation c has evaluated its signal
evaluated(c) == call[c].pc \in {"saving", "processing", "risk", "logging", "returned"}

\* C30: the daily trade count that gates a user's signal counts only that
\* user's own trades, and the emitted signal carries the requesting user's id:
\* a qualifying recommendation of a user whose own trades of today are below
\* the limit gives a signal, whatever other users traded
C30_CountIsPerUser ==
    \A c \in CallIds :
       evaluated(c) =>
          LET user == selectedSettings(users[call[c].userId])
          IN /\ (/\ passesThreshold(call[c].analysis, user)
                 /\ ~overDailyLimit(tradesOnBehalfOf(call[c].userId), user))
                => call[c].signal # Null
             /\ call[c].signal # Null => call[c].signal.userId = call[c].userId

\* the signal of a user who has not traded today is suppressed by the trade of
\* another user
C30_SuppressedByOthers ==
    \E c \in CallIds :
       /\ evaluated(c)
       /\ call[c].userId = "u1"
       /\ passesThreshold(call[c].analysis, selectedSettings(users["u1"]))
       /\ tradesOnBehalfOf("u1") = 0
       /\ users["u1"].maxTradesPerDay = 1
       /\ call[c].signal = Null

\* a signal was emitted and its userId is undefined
C30_SignalWithoutUser ==
    \E c \in CallIds :
       /\ evaluated(c)
       /\ call[c].signal # Null
       /\ call[c].signal.userId = Undefined

----------------------------------------------------------------------------
\* EnhancedMarketDataService: the rate limiter
RATE_LIMIT_WINDOW == 60000
BackoffBase       == 30000
BackoffCap        == 300000
SearchMaxCalls    == 3

\* bounds of the rate limiter runs
MaxChecks == 5        \* checkRateLimit calls per behaviour
RlStep    == 15000    \* milliseconds the clock advances at a time
RlMaxNow  == 135000   \* the clock stops here

ApiNames == {"alphavantage", "finnhub"}

Min(a, b) == IF a <= b THEN a ELSE b

\* Map.set(k, v)
Put(map, k, v) == [x \in DOMAIN map \cup {k} |-> IF x = k THEN v ELSE map[x]]

\* Map.delete(k)
Drop(map, k) == [x \in DOMAIN map \ {k} |-> map[x]]

\* mutant of windowKey: one bucket per window, shared by the sources
windowKeyShared(apiName, t) == <<"alphavantage", t \div RATE_LIMIT_WINDOW>>

\* `${apiName}_${Math.floor(now / this.RATE_LIMIT_WINDOW)}`
windowKey(apiName, t) == <<apiName, t \div RATE_LIMIT_WINDOW>>

\* this.rateLimits.get(windowKey) || { count: 0, window: now }; a backoffUntil
\* of 0 stands for the absent (falsy) property
currentWindow(limits, apiName, t) ==
    IF windowKey(apiName, t) \in DOMAIN limits
    THEN limits[windowKey(apiName, t)]
    ELSE [count |-> 0, window |-> t, backoffUntil |-> 0]

\* current.backoffUntil && now < current.backoffUntil
inBackoff(current, t) == current.backoffUntil # 0 /\ t < current.backoffUntil

\* mutant of limitReached: one call too many is let through
limitReachedLate(count, maxCalls) == count > maxCalls

\* current.count >= maxCalls
limitReached(count, maxCalls) == count >= maxCalls

\* Math.min(30000 * Math.pow(2, current.count - maxCalls), 300000)
backoffPeriod(count, maxCalls) ==
    Min(BackoffBase * 2^(count - maxCalls), BackoffCap)

\* checkRateLimit(apiName, maxCalls) at time t: the answer and the new map
checkRateLimit(limits, apiName, maxCalls, t) ==
    LET current == currentWindow(limits, apiName, t)
    IN IF inBackoff(current, t)
       THEN [allowed |-> FALSE, limits |-> limits]
       ELSE IF limitReached(current.count, maxCalls)
       THEN [allowed |-> FALSE,
             limits  |-> Put(limits, windowKey(apiName, t),
                             [current EXCEPT !.backoffUntil =
                                t + backoffPeriod(current.count, maxCalls)])]
       ELSE [allowed |-> TRUE,
             limits  |-> Put(limits, windowKey(apiName, t),
                             [current EXCEPT !.count = current.count + 1])]

\* l.139-142: the backoff period this call imposes, 0 when it imposes none
imposedBackoff(limits, apiName, maxCalls, t) ==
    LET current == currentWindow(limits, apiName, t)
    IN IF ~inBackoff(current, t) /\ limitReached(current.count, maxCalls)
       THEN backoffPeriod(current.count, maxCalls)
       ELSE 0

\* what a checkRateLimit call leaves in the log
logEntry(apiName, t, answer) ==
    [api      |-> apiName,
     at       |-> t,
     window   |-> t \div RATE_LIMIT_WINDOW,
     allowed  |-> answer.allowed,
     until    |-> currentWindow(answer.limits, apiName, t).backoffUntil,
     backoff  |-> imposedBackoff(rateLimits, apiName, SearchMaxCalls, t)]

\* SpecRL: checkRateLimit called directly, the clock advancing in between
InitRL ==
    /\ EvalIdle
    /\ EngIdle
    /\ MdIdle

RlCheck(apiName) ==
    /\ Len(rlLog) < MaxChecks
    /\ LET answer == checkRateLimit(rateLimits, apiName, SearchMaxCalls, now)
       IN /\ rateLimits' = answer.limits
          /\ rlLog' = Append(rlLog, logEntry(apiName, now, answer))
    /\ UNCHANGED <<evalVars, engVars, now, cache, timers, debounceTimers,
                   pendingRequests, req, ops, read>>

RlAdvance ==
    /\ now + RlStep <= RlMaxNow
    /\ now' = now + RlStep
    /\ UNCHANGED <<evalVars, engVars, cache, rateLimits, timers, debounceTimers,
                   pendingRequests, req, ops, rlLog, read>>

NextRL ==
    \/ \E apiName \in ApiNames : RlCheck(apiName)
    \/ RlAdvance

SpecRL == InitRL /\ [][NextRL]_vars

\* the logged calls to one source in one window, in call order
callsIn(apiName, w) ==
    SelectSeq(rlLog, LAMBDA e : e.api = apiName /\ e.window = w)

Windows == 0..(RlMaxNow \div RATE_LIMIT_WINDOW)

\* C10: of the checkRateLimit calls made to one source within one one-minute
\* window, the first maxPerWindow are allowed, call maxPerWindow+1 is denied
\* and sets backoffUntil, and every later call of that window made before
\* backoffUntil is denied.
C10_WindowLimit ==
    \A apiName \in ApiNames, w \in Windows :
       LET calls == callsIn(apiName, w)
       IN \A k \in 1..Len(calls) :
            /\ k <= SearchMaxCalls => calls[k].allowed
            /\ k = SearchMaxCalls + 1 =>
                  /\ ~calls[k].allowed
                  /\ calls[k].until = calls[k].at + BackoffBase
            /\ (k > SearchMaxCalls + 1 /\ calls[k].at < calls[k - 1].until)
                  => ~calls[k].allowed

\* a fifth call to a source in one window, made before its backoffUntil, denied
C10_Witness ==
    \E apiName \in ApiNames, w \in Windows :
       LET calls == callsIn(apiName, w)
       IN /\ Len(calls) >= SearchMaxCalls + 2
          /\ calls[SearchMaxCalls + 2].at < calls[SearchMaxCalls + 1].until
          /\ calls[SearchMaxCalls + 2].at > calls[SearchMaxCalls + 1].at
          /\ ~calls[SearchMaxCalls + 2].allowed

\* C11: a backoff set for a source in window w that has not elapsed when
\* window w+1 begins still denies the checkRateLimit calls made for that
\* source in window w+1 before backoffUntil
C11_BackoffOutlivesWindow ==
    \A k, m \in DOMAIN rlLog :
       (/\ k < m
        /\ rlLog[k].api = rlLog[m].api
        /\ rlLog[k].backoff > 0
        /\ rlLog[m].window = rlLog[k].window + 1
        /\ rlLog[m].at < rlLog[k].until)
       => ~rlLog[m].allowed

\* the entries of the rate-limit map that belong to other sources than apiName
othersOf(limits, apiName) ==
    [key \in {k \in DOMAIN limits : k[1] # apiName} |-> limits[key]]

\* a checkRateLimit call for a source leaves the entries of the others alone
RlFrame ==
    \A apiName \in ApiNames :
       RlCheck(apiName) => othersOf(rateLimits', apiName) = othersOf(rateLimits, apiName)

\* a denied call to a source follows maxPerWindow allowed calls to that very
\* source in the same window
RlDeniedOnOwnAccount ==
    \A m \in DOMAIN rlLog :
       ~rlLog[m].allowed =>
          Cardinality({k \in 1..(m - 1) :
                          /\ rlLog[k].api = rlLog[m].api
                          /\ rlLog[k].window = rlLog[m].window
                          /\ rlLog[k].allowed}) = SearchMaxCalls

\* C13: rate-limit state is independent per source: a checkRateLimit call for
\* source A, allowed or denied, leaves the counter and backoffUntil of every
\* other source B unchanged, so exhausting or backing off A never causes a
\* call to B to be denied
C13_SourcesIndependent == [][RlFrame]_vars /\ []RlDeniedOnOwnAccount

\* source A is backing off and a later call to source B, made in the same
\* window before A's backoffUntil, is allowed
C13_Witness ==
    \E k, m \in DOMAIN rlLog :
       /\ k < m
       /\ rlLog[k].api # rlLog[m].api
       /\ rlLog[k].backoff > 0
       /\ rlLog[m].window = rlLog[k].window
       /\ rlLog[m].at < rlLog[k].until
       /\ rlLog[m].allowed

\* the checkRateLimit calls that imposed a backoff on a source, in call order
violationsOf(apiName) ==
    SelectSeq(rlLog, LAMBDA e : e.api = apiName /\ e.backoff > 0)

\* C12: the backoff imposed on a source is min(30 s * 2^(count - maxPerWindow),
\* 5 min), and a source denied again for exceeding maxPerWindow receives a
\* strictly longer backoff than at its previous violation until the 5-minute
\* cap is reached
C12_BackoffEscalates ==
    \A apiName \in ApiNames :
       LET violations == violationsOf(apiName)
       IN \A k \in 1..Len(violations) :
            /\ violations[k].backoff <= BackoffCap
            /\ violations[k].until = violations[k].at + violations[k].backoff
            /\ k > 1 => \/ violations[k].backoff > violations[k - 1].backoff
                        \/ violations[k - 1].backoff = BackoffCap

----------------------------------------------------------------------------
\* EnhancedMarketDataService: debounceRequest and deduplicateRequest
DefaultDelay == 300

\* bounds of the debounce and deduplication runs
NumReq   == 3       \* calls per behaviour
DdStep   == 150     \* milliseconds the clock advances at a time
DdMaxNow == 600     \* the clock is not advanced past this

ReqIds == 1..NumReq
OpIds  == 1..NumReq
Keys   == {"k1", "k2"}

NoResult == [kind |-> "none", of |-> 0]

\* a call not yet made, and an operation not yet started
IdleReq ==
    [state |-> "idle", via |-> "", key |-> "", query |-> "", at |-> 0, op |-> 0,
     sawOp |-> 0, superseded |-> FALSE, runs |-> 0, result |-> NoResult,
     details |-> FALSE, stale |-> FALSE]

IdleOp ==
    [state |-> "unused", key |-> "", starter |-> 0, pc |-> "", query |-> "",
     results |-> <<>>, answers |-> <<>>, audit |-> <<>>]

\* the promise states
Settled == {"resolved", "rejected"}

settledAs(outcome) == IF outcome = "ok" THEN "resolved" ELSE "rejected"

resultOf(outcome, id) ==
    [kind |-> IF outcome = "ok" THEN "value" ELSE "error", of |-> id]

\* mutant of clearTimeout: the timer stays armed
clearTimeoutNoop(queue, handle) == queue

\* clearTimeout(existingTimer): the timer leaves the runtime's queue
clearTimeout(queue, handle) == {tm \in queue : tm.owner # handle}

\* setTimeout(callback, delay) for call i
setTimeout(queue, i, key, t, delay) ==
    queue \cup {[owner |-> i, key |-> key, fireAt |-> t + delay]}

\* the operations in flight for a key, as the operation states show them
inFlightOps(key) == {o \in DOMAIN ops : ops[o].state = "running" /\ ops[o].key = key}

inFlightOp(key) == IF inFlightOps(key) = {} THEN 0 ELSE CHOOSE o \in inFlightOps(key) : TRUE

freshOp == CHOOSE o \in DOMAIN ops : ops[o].state = "unused"

\* l.157-176: the body of debounceRequest for call i; the call whose timer is
\* cleared keeps its promise, which nothing settles any more
debounced(i, key, delay) ==
    /\ timers' = setTimeout(
                    IF key \in DOMAIN debounceTimers
                    THEN clearTimeout(timers, debounceTimers[key])
                    ELSE timers,
                    i, key, now, delay)
    /\ debounceTimers' = Put(debounceTimers, key, i)

\* callers whose timer is pending on the key when a new call arrives
pendingOn(key) == {j \in DOMAIN req : req[j].state = "scheduled" /\ req[j].key = key}

\* mutant of markInFlight: the promise is not recorded
markInFlightForgets(pending, key, o) == pending

\* this.pendingRequests.set(key, promise)
markInFlight(pending, key, o) == Put(pending, key, o)

\* mutant of unmarkInFlight: the marker is removed on success only
unmarkOnSuccessOnly(pending, key, outcome) ==
    IF outcome = "ok" THEN Drop(pending, key) ELSE pending

\* .finally(() => this.pendingRequests.delete(key))
unmarkInFlight(pending, key, outcome) == Drop(pending, key)

InitDD ==
    /\ EvalIdle
    /\ EngIdle
    /\ now = 0
    /\ cache = <<>>
    /\ rateLimits = <<>>
    /\ timers = {}
    /\ debounceTimers = <<>>
    /\ pendingRequests = <<>>
    /\ req = [i \in ReqIds |-> IdleReq]
    /\ ops = [o \in OpIds |-> IdleOp]
    /\ rlLog = <<>>
    /\ read = NoRead

nextReq(i) == req[i].state = "idle" /\ \A j \in DOMAIN req : j < i => req[j].state # "idle"

\* debounceRequest(key, operation) with the default delay
DbCall(i, key) ==
    /\ nextReq(i)
    /\ debounced(i, key, DefaultDelay)
    /\ req' = [j \in ReqIds |->
                 IF j = i
                 THEN [IdleReq EXCEPT !.state = "scheduled", !.via = "debounce",
                                      !.key = key]
                 ELSE IF j \in pendingOn(key)
                 THEN [req[j] EXCEPT !.superseded = TRUE]
                 ELSE req[j]]
    /\ UNCHANGED <<evalVars, engVars, now, cache, rateLimits, pendingRequests, ops,
                   rlLog, read>>

\* l.165-168: a timer fires, forgets its key and calls its operation
DbFire(tm) ==
    /\ tm \in timers
    /\ \A other \in timers : tm.fireAt <= other.fireAt
    /\ req[tm.owner].via = "debounce"
    /\ now' = IF now < tm.fireAt THEN tm.fireAt ELSE now
    /\ timers' = timers \ {tm}
    /\ debounceTimers' = Drop(debounceTimers, tm.key)
    /\ req' = [req EXCEPT ![tm.owner].state = "running",
                          ![tm.owner].runs = req[tm.owner].runs + 1]
    /\ UNCHANGED <<evalVars, engVars, cache, rateLimits, pendingRequests, ops, rlLog, read>>

\* l.168-172: the operation settles and the promise of its call follows
DbSettle(i, outcome) ==
    /\ req[i].via = "debounce"
    /\ req[i].state = "running"
    /\ req' = [req EXCEPT ![i].state = settledAs(outcome),
                          ![i].result = resultOf(outcome, i)]
    /\ UNCHANGED <<evalVars, engVars, now, cache, rateLimits, timers, debounceTimers,
                   pendingRequests, ops, rlLog, read>>

\* l.180-193: deduplicateRequest(key, operation) for call i
DdCall(i, key) ==
    /\ nextReq(i)
    /\ IF key \in DOMAIN pendingRequests
       THEN /\ req' = [req EXCEPT ![i] =
                         [IdleReq EXCEPT !.state = "attached", !.via = "dedup",
                                         !.key = key, !.op = pendingRequests[key],
                                         !.sawOp = inFlightOp(key)]]
            /\ UNCHANGED <<ops, pendingRequests>>
       ELSE /\ req' = [req EXCEPT ![i] =
                         [IdleReq EXCEPT !.state = "attached", !.via = "dedup",
                                         !.key = key, !.op = freshOp,
                                         !.sawOp = inFlightOp(key)]]
            /\ ops' = [ops EXCEPT ![freshOp] =
                         [IdleOp EXCEPT !.state = "running", !.key = key,
                                        !.starter = i]]
            /\ pendingRequests' = markInFlight(pendingRequests, key, freshOp)
    /\ UNCHANGED <<evalVars, engVars, now, cache, rateLimits, timers, debounceTimers,
                   rlLog, read>>

\* l.187-189: the operation settles, the finally callback runs and every
\* caller holding the promise sees the outcome
DdSettle(o, outcome) ==
    /\ ops[o].state = "running"
    /\ ops' = [ops EXCEPT ![o].state = IF outcome = "ok" THEN "fulfilled" ELSE "rejected"]
    /\ pendingRequests' = unmarkInFlight(pendingRequests, ops[o].key, outcome)
    /\ req' = [j \in ReqIds |->
                 IF req[j].state = "attached" /\ req[j].op = o
                 THEN [req[j] EXCEPT !.state = settledAs(outcome),
                                     !.result = resultOf(outcome, o)]
                 ELSE req[j]]
    /\ UNCHANGED <<evalVars, engVars, now, cache, rateLimits, timers, debounceTimers,
                   rlLog, read>>

\* the clock moves on, not past a timer that is due
DdAdvance ==
    /\ now + DdStep <= DdMaxNow
    /\ \A tm \in timers : now + DdStep <= tm.fireAt
    /\ now' = now + DdStep
    /\ UNCHANGED <<evalVars, engVars, cache, rateLimits, timers, debounceTimers,
                   pendingRequests, req, ops, rlLog, read>>

NextDD ==
    \/ \E i \in ReqIds, key \in Keys : DbCall(i, key)
    \/ \E tm \in timers : DbFire(tm)
    \/ \E i \in ReqIds, outcome \in {"ok", "error"} : DbSettle(i, outcome)
    \/ \E i \in ReqIds, key \in Keys : DdCall(i, key)
    \/ \E o \in OpIds, outcome \in {"ok", "error"} : DdSettle(o, outcome)
    \/ DdAdvance

SpecDD == InitDD /\ [][NextDD]_vars

Debounced    == {i \in ReqIds : req[i].via = "debounce"}
Deduplicated == {i \in ReqIds : req[i].via = "dedup"}

\* C7: of the debounceRequest calls on one key, each made while the timer of
\* the previous one is pending, a superseded call has its timer cancelled, its
\* operation is never executed and its promise never settled; an operation is
\* executed at most once, and a promise is settled only by the outcome of the
\* operation passed in the same call.
C7_DebounceLastOnly ==
    \A i \in Debounced :
       /\ req[i].runs <= 1
       /\ req[i].superseded =>
             /\ req[i].runs = 0
             /\ req[i].state \notin Settled
             /\ \A tm \in timers : tm.owner # i
       /\ req[i].state \in Settled =>
             /\ req[i].runs = 1
             /\ req[i].result.of = i
       /\ Cardinality({tm \in timers : tm.key = req[i].key}) <= 1

\* two calls on one key: the first superseded and silent, the second settled
C7_Witness ==
    \E i, j \in Debounced :
       /\ i < j
       /\ req[i].key = req[j].key
       /\ req[i].superseded
       /\ req[j].state = "rejected"
       /\ req[j].result = [kind |-> "error", of |-> j]

\* C8: while an operation started by deduplicateRequest for a key has not
\* settled, a further call with that key starts no second operation and holds
\* the promise of the running one; at most one operation per key is in flight
\* and every caller holding the promise sees the operation's outcome.
C8_DedupSharesOne ==
    /\ \A key \in Keys : Cardinality(inFlightOps(key)) <= 1
    /\ \A i \in Deduplicated :
         /\ req[i].sawOp # 0 =>
               /\ req[i].op = req[i].sawOp
               /\ ops[req[i].op].starter # i
         /\ ops[req[i].op].state = "running"   => req[i].state = "attached"
         /\ ops[req[i].op].state = "fulfilled" =>
               /\ req[i].state = "resolved"
               /\ req[i].result = [kind |-> "value", of |-> req[i].op]
         /\ ops[req[i].op].state = "rejected"  =>
               /\ req[i].state = "rejected"
               /\ req[i].result = [kind |-> "error", of |-> req[i].op]

\* a second caller joined a running operation and both were resolved by it
C8_Witness ==
    \E i, j \in Deduplicated :
       /\ i # j
       /\ req[j].sawOp = req[i].op
       /\ ops[req[i].op].starter = i
       /\ req[i].state = "resolved"
       /\ req[j].state = "resolved"
       /\ req[i].result = req[j].result

\* C9: the in-flight marker of a key is gone once its operation has settled,
\* fulfilled or rejected; a deduplicateRequest call made when no operation of
\* its key is running starts an operation of its own.
C9_MarkerRemovedOnSettle ==
    /\ \A key \in DOMAIN pendingRequests :
          ops[pendingRequests[key]].state = "running"
    /\ \A i \in Deduplicated :
          req[i].sawOp = 0 => ops[req[i].op].starter = i

\* an operation was rejected and a later call on its key started a fresh one
C9_Witness ==
    \E o \in OpIds, i \in Deduplicated :
       /\ ops[o].state = "rejected"
       /\ ops[o].key = req[i].key
       /\ ops[o].starter < i
       /\ req[i].sawOp = 0
       /\ req[i].op # o
       /\ ops[req[i].op].starter = i

----------------------------------------------------------------------------
\* EnhancedMarketDataService.searchAssets; strings are sequences of characters
SearchTtl      == 300000     \* CACHE_DURATIONS.search
SearchDebounce == 500

\* CACHE_DURATIONS, in milliseconds
CACHE_DURATIONS ==
    [intraday   |-> 3 * 60 * 1000,
     daily      |-> 10 * 60 * 1000,
     historical |-> 45 * 60 * 1000,
     news       |-> 8 * 60 * 1000,
     analysis   |-> 20 * 60 * 1000,
     search     |-> SearchTtl,
     extended   |-> 2 * 60 * 60 * 1000]

\* bounds of the search runs
NumSearch == 2        \* searchAssets calls per behaviour
MdStep    == 250      \* milliseconds the clock advances while a timer is pending
MdMaxNow  == 301000   \* the clock is not advanced past this
MdLingerStep == 120000  \* milliseconds the clock advances while nothing is pending

SearchIds == 1..NumSearch

UpperAlpha == <<"A", "B", "C", "D", "E", "F", "G", "H", "I", "J", "K", "L", "M", "N", "O", "P", "Q", "R", "S", "T", "U", "V", "W", "X", "Y", "Z">>
LowerAlpha == <<"a", "b", "c", "d", "e", "f", "g", "h", "i", "j", "k", "l", "m", "n", "o", "p", "q", "r", "s", "t", "u", "v", "w", "x", "y", "z">>

toUpperChar(c) ==
    IF \E k \in 1..26 : LowerAlpha[k] = c
    THEN UpperAlpha[CHOOSE k \in 1..26 : LowerAlpha[k] = c] ELSE c

toLowerChar(c) ==
    IF \E k \in 1..26 : UpperAlpha[k] = c
    THEN LowerAlpha[CHOOSE k \in 1..26 : UpperAlpha[k] = c] ELSE c

toUpperCase(str) == [k \in DOMAIN str |-> toUpperChar(str[k])]
toLowerCase(str) == [k \in DOMAIN str |-> toLowerChar(str[k])]

RECURSIVE trimStart(_)
trimStart(str) ==
    IF str # <<>> /\ Head(str) = " " THEN trimStart(Tail(str)) ELSE str

RECURSIVE trimEnd(_)
trimEnd(str) ==
    IF str # <<>> /\ str[Len(str)] = " "
    THEN trimEnd(SubSeq(str, 1, Len(str) - 1)) ELSE str

\* String.prototype.trim
trim(str) == trimEnd(trimStart(str))

\* String.prototype.includes
includes(str, part) ==
    LET whole  == str
        needle == part
    IN \E k \in 0..(Len(whole) - Len(needle)) :
          SubSeq(whole, k + 1, k + Len(needle)) = needle

\* query.trim().toUpperCase()
normalizedQuery(query) == toUpperCase(trim(query))

\* `search_${normalizedQuery}`
searchKey(query) == <<"search_", normalizedQuery(query)>>

\* the queries callers type
Queries == {<<"I", "B", "M">>, <<"i", "b", "m", " ">>, <<"A", "A", "P", "L">>,
            <<"Z", "Z", "Z">>}

\* the symbols callers ask details of
Symbols == {<<"I", "B", "M">>, <<"Z", "Z", "Z">>}

\* `asset_${symbol}`
assetKey(symbol) == <<"asset_", symbol>>

\* fallbackAssets of getEnhancedFallbackSearchResults; basePrice is the
\* fraction num / den of a dollar
fallbackAssets ==
    <<[symbol |-> <<"A", "A", "P", "L">>,
        name |-> <<"A", "p", "p", "l", "e", " ", "I", "n", "c", ".">>,
        basePrice |-> [num |-> 175, den |-> 1]],
       [symbol |-> <<"G", "O", "O", "G", "L">>,
        name |-> <<"A", "l", "p", "h", "a", "b", "e", "t", " ", "I", "n", "c", ".">>,
        basePrice |-> [num |-> 142, den |-> 1]],
       [symbol |-> <<"T", "S", "L", "A">>,
        name |-> <<"T", "e", "s", "l", "a", ",", " ", "I", "n", "c", ".">>,
        basePrice |-> [num |-> 248, den |-> 1]],
       [symbol |-> <<"N", "V", "D", "A">>,
        name |-> <<"N", "V", "I", "D", "I", "A", " ", "C", "o", "r", "p", "o", "r", "a", "t", "i", "o", "n">>,
        basePrice |-> [num |-> 178, den |-> 1]],
       [symbol |-> <<"M", "S", "F", "T">>,
        name |-> <<"M", "i", "c", "r", "o", "s", "o", "f", "t", " ", "C", "o", "r", "p", "o", "r", "a", "t", "i", "o", "n">>,
        basePrice |-> [num |-> 420, den |-> 1]],
       [symbol |-> <<"I", "B", "M">>,
        name |-> <<"I", "n", "t", "e", "r", "n", "a", "t", "i", "o", "n", "a", "l", " ", "B", "u", "s", "i", "n", "e", "s", "s", " ", "M", "a", "c", "h", "i", "n", "e", "s", " ", "C", "o", "r", "p", ".">>,
        basePrice |-> [num |-> 145, den |-> 1]],
       [symbol |-> <<"J", "N", "J">>,
        name |-> <<"J", "o", "h", "n", "s", "o", "n", " ", "&", " ", "J", "o", "h", "n", "s", "o", "n">>,
        basePrice |-> [num |-> 162, den |-> 1]],
       [symbol |-> <<"P", "G">>,
        name |-> <<"P", "r", "o", "c", "t", "e", "r", " ", "&", " ", "G", "a", "m", "b", "l", "e", " ", "C", "o", ".">>,
        basePrice |-> [num |-> 155, den |-> 1]],
       [symbol |-> <<"W", "M", "T">>,
        name |-> <<"W", "a", "l", "m", "a", "r", "t", " ", "I", "n", "c", ".">>,
        basePrice |-> [num |-> 165, den |-> 1]],
       [symbol |-> <<"J", "P", "M">>,
        name |-> <<"J", "P", "M", "o", "r", "g", "a", "n", " ", "C", "h", "a", "s", "e", " ", "&", " ", "C", "o", ".">>,
        basePrice |-> [num |-> 155, den |-> 1]],
       [symbol |-> <<"B", "A", "C">>,
        name |-> <<"B", "a", "n", "k", " ", "o", "f", " ", "A", "m", "e", "r", "i", "c", "a", " ", "C", "o", "r", "p", ".">>,
        basePrice |-> [num |-> 32, den |-> 1]],
       [symbol |-> <<"B", "T", "C">>,
        name |-> <<"B", "i", "t", "c", "o", "i", "n">>,
        basePrice |-> [num |-> 65000, den |-> 1]],
       [symbol |-> <<"E", "T", "H">>,
        name |-> <<"E", "t", "h", "e", "r", "e", "u", "m">>,
        basePrice |-> [num |-> 3200, den |-> 1]],
       [symbol |-> <<"S", "H", "I", "B">>,
        name |-> <<"S", "h", "i", "b", "a", " ", "I", "n", "u">>,
        basePrice |-> [num |-> 15, den |-> 1000000]],
       [symbol |-> <<"X", "M", "R">>,
        name |-> <<"M", "o", "n", "e", "r", "o">>,
        basePrice |-> [num |-> 145, den |-> 1]]>>

\* (Math.random() - 0.5) * 0.06, in percent: the draws that are enumerated
PriceVariations == {-3, 2}

\* Math.round(x) of the non-negative fraction a / b
roundDiv(a, b) == (2 * a + b) \div (2 * b)

\* Math.round(asset.basePrice * (1 + priceVariation) * 100) / 100, in cents
fallbackPrice(basePrice, variation) ==
    roundDiv(basePrice.num * (100 + variation), basePrice.den)

\* Array.prototype.slice(0, n)
Take(seq, n) == SubSeq(seq, 1, Min(n, Len(seq)))

\* asset.symbol.toLowerCase() and asset.name.toLowerCase() of every row
fallbackLowered ==
    [k \in DOMAIN fallbackAssets |->
       [symbol |-> toLowerCase(fallbackAssets[k].symbol),
        name   |-> toLowerCase(fallbackAssets[k].name)]]

\* the positions of the rows whose symbol or name includes the query
RECURSIVE matchingRows(_, _)
matchingRows(lowered, k) ==
    IF k > Len(fallbackAssets) THEN <<>>
    ELSE IF \/ includes(fallbackLowered[k].symbol, lowered)
            \/ includes(fallbackLowered[k].name, lowered)
         THEN <<fallbackAssets[k]>> \o matchingRows(lowered, k + 1)
         ELSE matchingRows(lowered, k + 1)

\* mutant of fallbackMatches: a query that matches no row gets the first row
fallbackMatchesOrFirst(query) ==
    LET rows == Take(matchingRows(toLowerCase(query), 1), 8)
    IN IF Len(rows) = 0 THEN <<fallbackAssets[1]>> ELSE rows

\* l.286-291 for the queries the callers type, computed once
matchesOfQueries ==
    [query \in {normalizedQuery(typed) : typed \in Queries} |->
       Take(matchingRows(toLowerCase(query), 1), 8)]

\* l.286-291: the rows of the table that match the query
fallbackMatches(query) ==
    IF query \in DOMAIN matchesOfQueries
    THEN matchesOfQueries[query]
    ELSE Take(matchingRows(toLowerCase(query), 1), 8)

\* the price draws of one fallback call, one per match
PriceDraws(query) == [1..Len(fallbackMatches(query)) -> PriceVariations]

\* getEnhancedFallbackSearchResults(query); variation[k] is the draw of match k
getEnhancedFallbackSearchResults(query, variation) ==
    LET matches == fallbackMatches(query)
    IN [k \in DOMAIN matches |->
          [symbol |-> matches[k].symbol,
           source |-> "fallback",
           price  |-> fallbackPrice(matches[k].basePrice, variation[k])]]

\* what a provider search hands back for a query: a record, or nothing
providerResults(source, query, outcome) ==
    IF outcome = "hit"
    THEN <<[symbol |-> query, source |-> source, price |-> 15000]>>
    ELSE <<>>

\* mutant of getCachedData: an entry as old as its TTL still counts as fresh
getCachedDataLax(store, key, ttl, t) ==
    LET hit == key \in DOMAIN store /\ t - store[key].timestamp <= ttl
    IN [hit   |-> hit,
        data  |-> IF hit THEN store[key].data ELSE <<>>,
        cache |-> IF ~hit /\ key \in DOMAIN store THEN Drop(store, key) ELSE store]

\* getCachedData(key, cacheType): the value or a miss, and the map afterwards
getCachedData(store, key, ttl, t) ==
    LET hit == key \in DOMAIN store /\ t - store[key].timestamp < ttl
    IN [hit   |-> hit,
        data  |-> IF hit THEN store[key].data ELSE <<>>,
        cache |-> IF ~hit /\ key \in DOMAIN store THEN Drop(store, key) ELSE store]

\* mutant of setCachedData: the entry keeps the time of the entry it replaces
setCachedDataKeepsTime(store, key, data, ttl, t) ==
    Put(store, key, [data |-> data, ttl |-> ttl,
                     timestamp |-> IF key \in DOMAIN store
                                   THEN store[key].timestamp ELSE 0])

\* setCachedData(key, data, cacheType)
setCachedData(store, key, data, ttl, t) ==
    Put(store, key, [data |-> data, timestamp |-> t, ttl |-> ttl])

\* mutant of afterAlphaVantage: the chain is over once alphavantage answered
afterAlphaVantageAborts(results, limits) ==
    [pc |-> "finish", results |-> results, limits |-> limits]

\* mutant of afterAlphaVantage: records of alphavantage end the chain
afterAlphaVantageShortCircuits(results, limits) ==
    LET fh == checkRateLimit(limits, "finnhub", SearchMaxCalls, now')
    IN [pc      |-> IF fh.allowed /\ Len(results) = 0 THEN "finnhub" ELSE "finish",
        results |-> results,
        limits  |-> IF Len(results) = 0 THEN fh.limits ELSE limits]

\* l.224-233: the finnhub rate check once the alphavantage part is over
afterAlphaVantage(results, limits) ==
    LET fh == checkRateLimit(limits, "finnhub", SearchMaxCalls, now')
    IN [pc      |-> IF fh.allowed THEN "finnhub" ELSE "finish",
        results |-> results,
        limits  |-> fh.limits]

\* l.208-222: the chain up to its first network request
startChain(limits) ==
    LET av == checkRateLimit(limits, "alphavantage", SearchMaxCalls, now')
    IN IF av.allowed
       THEN [pc |-> "alphavantage", results |-> <<>>, limits |-> av.limits]
       ELSE afterAlphaVantage(<<>>, av.limits)

\* mutant of finalResults: the static table is not consulted
finalResultsNoFallback(query, results, variation) == results

\* l.235-252: the results the chain ends with
finalResults(query, results, variation) ==
    IF Len(results) = 0
    THEN getEnhancedFallbackSearchResults(query, variation)
    ELSE results

\* l.505-507: searchResults.find(asset => asset.symbol.toUpperCase() ===
\* symbol.toUpperCase()), Null when there is none
exactMatch(searchResults, symbol) ==
    LET found == SelectSeq(searchResults,
                    LAMBDA asset : toUpperCase(asset.symbol) = toUpperCase(symbol))
    IN IF Len(found) > 0 THEN found[1] ELSE Null

\* what the caller of record r is handed when its search resolves with value:
\* the list for searchAssets, the exact match or null for getAssetDetails
delivered(r, value) ==
    IF r.details THEN exactMatch(value, r.query) ELSE value

\* l.509-524: getAssetDetails caches the exact match it returns
storeDetails(store, r, value) ==
    IF r.details /\ exactMatch(value, r.query) # Null
    THEN setCachedData(store, assetKey(r.query), exactMatch(value, r.query),
                       CACHE_DURATIONS.intraday, now')
    ELSE store

\* the promises that follow operation o
holdersOf(reqs, o) ==
    {j \in DOMAIN reqs : reqs[j].state = "attached" /\ reqs[j].op = o}

\* the promises that follow operation o are resolved with its value
resolveHolders(reqs, o, value) ==
    [j \in DOMAIN reqs |->
       IF j \in holdersOf(reqs, o)
       THEN [reqs[j] EXCEPT !.state = "resolved",
                            !.result = [kind |-> "value", of |-> o,
                                        data |-> delivered(reqs[j], value)]]
       ELSE reqs[j]]

\* the getAssetDetails callers among the holders of o store what they return
RECURSIVE storeAllDetails(_, _, _, _, _)
storeAllDetails(store, reqs, o, value, j) ==
    IF j > Len(reqs) THEN store
    ELSE storeAllDetails(
            IF j \in holdersOf(reqs, o) THEN storeDetails(store, reqs[j], value)
            ELSE store,
            reqs, o, value, j + 1)

\* what searchAssets passes to auditLogger.logApiCall once a provider function
\* is back (l.214-232): the function has caught a failed request itself and
\* returned no records (l.369-372, l.413-416), so nothing is thrown to
\* searchAssets, whose own catch branch with the 'error' entry is never taken
searchAuditEntry(apiName, outcome) ==
    LET thrown == FALSE
    IN IF thrown
       THEN [apiName |-> apiName, endpoint |-> "search", cacheStatus |-> "error",
             rateLimitStatus |-> FALSE, errorDetails |-> outcome]
       ELSE [apiName |-> apiName, endpoint |-> "search", cacheStatus |-> "hit",
             rateLimitStatus |-> TRUE, errorDetails |-> Undefined]

\* operation o moves on to the step st says; at "finish" it stores the final
\* results, settles, drops its in-flight marker and resolves its holders;
\* answers lists how the provider requests of o went so far, audit what the
\* audit logger was told about them and about the static table (l.240)
Proceed(o, key, query, starter, st, answers, variation, reqs, pending) ==
    /\ rateLimits' = st.limits
    /\ IF st.pc = "finish"
       THEN LET final == finalResults(query, st.results, variation)
                audit == [k \in DOMAIN answers |->
                            searchAuditEntry(answers[k].source, answers[k].outcome)]
                         \o (IF Len(st.results) = 0
                             THEN <<searchAuditEntry("fallback", "hit")>> ELSE <<>>)
            IN /\ cache' = storeAllDetails(
                              IF Len(final) > 0
                              THEN setCachedData(cache, key, final, SearchTtl, now')
                              ELSE cache,
                              reqs, o, Take(final, 10), 1)
               /\ ops' = [ops EXCEPT ![o] =
                            [state |-> "fulfilled", key |-> key, starter |-> starter,
                             pc |-> "done", query |-> query,
                             results |-> Take(final, 10), answers |-> answers,
                             audit |-> audit]]
               /\ pendingRequests' = unmarkInFlight(pending, key, "ok")
               /\ req' = resolveHolders(reqs, o, Take(final, 10))
       ELSE /\ ops' = [ops EXCEPT ![o] =
                         [state |-> "running", key |-> key, starter |-> starter,
                          pc |-> st.pc, query |-> query, results |-> st.results,
                          answers |-> answers,
                          audit |-> [k \in DOMAIN answers |->
                                       searchAuditEntry(answers[k].source,
                                                        answers[k].outcome)]]]
            /\ pendingRequests' = pending
            /\ req' = reqs
            /\ UNCHANGED cache

InitMD ==
    /\ EvalIdle
    /\ EngIdle
    /\ now = 0
    /\ cache = <<>>
    /\ rateLimits \in
         {<<>>,
          [k \in {windowKey(api, 0) : api \in ApiNames} |->
             [count |-> SearchMaxCalls, window |-> 0, backoffUntil |-> 0]]}
    /\ timers = {}
    /\ debounceTimers = <<>>
    /\ pendingRequests = <<>>
    /\ req = [i \in SearchIds |-> IdleReq]
    /\ ops = [o \in SearchIds |-> IdleOp]
    /\ rlLog = <<>>
    /\ read = NoRead

\* l.195-206: the body of searchAssets(query) called on cache `store`, for a
\* searchAssets caller or inside getAssetDetails
searchCall(i, query, store, details) ==
    LET key    == searchKey(query)
        cached == getCachedData(store, key, SearchTtl, now)
        mine   == [IdleReq EXCEPT !.key = key, !.query = query, !.at = now,
                                  !.details = details,
                                  !.stale = key \in DOMAIN store /\ ~cached.hit]
    IN IF cached.hit
       THEN /\ cache' = storeDetails(cached.cache, mine, cached.data)
            /\ req' = [req EXCEPT ![i] =
                         [mine EXCEPT !.state = "resolved", !.via = "cache",
                                      !.result = [kind |-> "value", of |-> 0,
                                                  data |-> delivered(mine, cached.data)]]]
            /\ UNCHANGED <<timers, debounceTimers>>
       ELSE /\ cache' = cached.cache
            /\ debounced(i, key, SearchDebounce)
            /\ req' = [j \in DOMAIN req |->
                         IF j = i
                         THEN [mine EXCEPT !.state = "scheduled", !.via = "search"]
                         ELSE IF j \in pendingOn(key)
                         THEN [req[j] EXCEPT !.superseded = TRUE]
                         ELSE req[j]]

\* l.195-206: searchAssets(query) up to the promise it returns
SearchAssets(i, query) ==
    /\ nextReq(i)
    /\ now' = now
    /\ searchCall(i, query, cache, FALSE)
    /\ UNCHANGED <<evalVars, engVars, rateLimits, pendingRequests, ops, rlLog, read>>

\* l.497-504: getAssetDetails(symbol) up to the promise it returns
GetAssetDetails(i, symbol) ==
    /\ nextReq(i)
    /\ now' = now
    /\ LET cached == getCachedData(cache, assetKey(symbol),
                                   CACHE_DURATIONS.intraday, now)
       IN IF cached.hit
          THEN /\ req' = [req EXCEPT ![i] =
                            [IdleReq EXCEPT !.state = "resolved", !.via = "cache",
                                            !.key = assetKey(symbol),
                                            !.query = symbol, !.at = now,
                                            !.details = TRUE,
                                            !.result = [kind |-> "value", of |-> 0,
                                                        data |-> cached.data]]]
               /\ cache' = cached.cache
               /\ UNCHANGED <<timers, debounceTimers>>
          ELSE searchCall(i, symbol, cached.cache, TRUE)
    /\ UNCHANGED <<evalVars, engVars, rateLimits, pendingRequests, ops, rlLog, read>>

\* l.165-168 with l.206-222: the debounce timer of a search fires and calls
\* deduplicateRequest, which joins the running chain or starts one
SearchFire(tm) ==
    /\ tm \in timers
    /\ \A other \in timers : tm.fireAt <= other.fireAt
    /\ now' = IF now < tm.fireAt THEN tm.fireAt ELSE now
    /\ timers' = timers \ {tm}
    /\ debounceTimers' = Drop(debounceTimers, tm.key)
    /\ LET i == tm.owner
       IN IF tm.key \in DOMAIN pendingRequests
          THEN /\ req' = [req EXCEPT ![i].state = "attached",
                                     ![i].runs = req[i].runs + 1,
                                     ![i].op = pendingRequests[tm.key],
                                     ![i].sawOp = inFlightOp(tm.key)]
               /\ UNCHANGED <<cache, rateLimits, pendingRequests, ops>>
          ELSE \E variation \in PriceDraws(normalizedQuery(req[i].query)) :
                  Proceed(freshOp, tm.key, normalizedQuery(req[i].query), i,
                       startChain(rateLimits), <<>>,
                       variation,
                       [req EXCEPT ![i].state = "attached",
                                   ![i].runs = req[i].runs + 1,
                                   ![i].op = freshOp],
                       markInFlight(pendingRequests, tm.key, freshOp))
    /\ UNCHANGED <<evalVars, engVars, rlLog, read>>

ProviderOutcomes == {"hit", "empty", "failed"}

\* l.216-225: searchStocksAlphaVantage answers (a failed request is caught
\* inside it and answers with no records)
AlphaVantageResponse(o, outcome) ==
    /\ ops[o].state = "running"
    /\ ops[o].pc = "alphavantage"
    /\ now' = now
    /\ \E variation \in PriceDraws(ops[o].query) :
       Proceed(o, ops[o].key, ops[o].query, ops[o].starter,
               afterAlphaVantage(
                   ops[o].results \o providerResults("alphavantage", ops[o].query, outcome),
                   rateLimits),
               Append(ops[o].answers, [source |-> "alphavantage", outcome |-> outcome]),
               variation, req, pendingRequests)
    /\ UNCHANGED <<evalVars, engVars, timers, debounceTimers, rlLog, read>>

\* l.227-252: searchCryptoFinnhub answers and the chain ends
FinnhubResponse(o, outcome) ==
    /\ ops[o].state = "running"
    /\ ops[o].pc = "finnhub"
    /\ now' = now
    /\ \E variation \in PriceDraws(ops[o].query) :
       Proceed(o, ops[o].key, ops[o].query, ops[o].starter,
               [pc      |-> "finish",
                results |-> ops[o].results
                            \o providerResults("finnhub", ops[o].query, outcome),
                limits  |-> rateLimits],
               Append(ops[o].answers, [source |-> "finnhub", outcome |-> outcome]),
               variation, req, pendingRequests)
    /\ UNCHANGED <<evalVars, engVars, timers, debounceTimers, rlLog, read>>

\* the clock moves on while a debounce timer is pending, not past its due time
MdTick ==
    /\ timers # {}
    /\ \A tm \in timers : now + MdStep <= tm.fireAt
    /\ now' = now + MdStep
    /\ UNCHANGED <<evalVars, engVars, cache, rateLimits, timers, debounceTimers,
                   pendingRequests, req, ops, rlLog, read>>

\* nothing is pending and the search TTL goes by
MdExpire ==
    /\ timers = {}
    /\ \A o \in DOMAIN ops : ops[o].state # "running"
    /\ now + SearchTtl <= MdMaxNow
    /\ now' = now + SearchTtl
    /\ UNCHANGED <<evalVars, engVars, cache, rateLimits, timers, debounceTimers,
                   pendingRequests, req, ops, rlLog, read>>

\* nothing is pending and part of the search TTL goes by
MdLinger ==
    /\ timers = {}
    /\ \A o \in DOMAIN ops : ops[o].state # "running"
    /\ now + MdLingerStep <= MdMaxNow
    /\ now' = now + MdLingerStep
    /\ UNCHANGED <<evalVars, engVars, cache, rateLimits, timers, debounceTimers,
                   pendingRequests, req, ops, rlLog, read>>

NextMD ==
    \/ \E i \in SearchIds, query \in Queries : SearchAssets(i, query)
    \/ \E i \in SearchIds, symbol \in Symbols : GetAssetDetails(i, symbol)
    \/ \E tm \in timers : SearchFire(tm)
    \/ \E o \in SearchIds, outcome \in ProviderOutcomes : AlphaVantageResponse(o, outcome)
    \/ \E o \in SearchIds, outcome \in ProviderOutcomes : FinnhubResponse(o, outcome)
    \/ MdTick
    \/ MdLinger
    \/ MdExpire

SpecMD == InitMD /\ [][NextMD]_vars

\* the chain executions that were started
executions == {o \in DOMAIN ops : ops[o].state # "unused"}

\* nothing of the search service is pending
mdQuiescent == timers = {} /\ \A o \in DOMAIN ops : ops[o].state # "running"

\* calls i and j both missed the cache and j came within the debounce window
\* that i opened
inOneWindow(i, j) ==
    /\ i < j
    /\ req[i].state # "idle" /\ req[j].state # "idle"
    /\ req[i].via = "search" /\ req[j].via = "search"
    /\ req[j].at - req[i].at < SearchDebounce

\* C5: concurrent searchAssets calls with an identical query, made with an
\* empty cache within the debounce window, lead to exactly one execution of
\* the provider chain, and once nothing is pending every caller's promise is
\* resolved with the same result
C5_IdenticalCallsShareOneResult ==
    \A i, j \in SearchIds :
       (inOneWindow(i, j) /\ req[i].query = req[j].query /\ mdQuiescent)
       => /\ Cardinality(executions) = 1
          /\ req[i].state = "resolved" /\ req[j].state = "resolved"
          /\ req[i].result = req[j].result

\* C6: searchAssets calls with pairwise different queries, all made within one
\* 500 ms debounce window, lead to exactly one execution of the provider
\* chain, and that execution uses the last query supplied
C6_VaryingQueriesRunLastOnly ==
    \A i, j \in SearchIds :
       (inOneWindow(i, j) /\ req[i].query # req[j].query /\ mdQuiescent)
       => /\ Cardinality(executions) = 1
          /\ \A o \in executions : ops[o].query = normalizedQuery(req[j].query)

\* the search result of the query is cached and younger than the search TTL
freshSearch(query) ==
    /\ searchKey(query) \in DOMAIN cache
    /\ now - cache[searchKey(query)].timestamp < SearchTtl

\* this step is call i, a searchAssets call with the query
searchCalled(i, query) ==
    /\ req[i].state = "idle"
    /\ req'[i].state # "idle"
    /\ ~req'[i].details
    /\ req'[i].query = query

\* a searchAssets call that finds a fresh entry returns its value and touches
\* neither the rate limits nor the timers nor the in-flight markers
SearchHitRule ==
    \A i \in SearchIds, query \in Queries :
       (searchCalled(i, query) /\ freshSearch(query)) =>
          /\ req'[i].state = "resolved"
          /\ req'[i].result.data = cache[searchKey(query)].data
          /\ UNCHANGED <<cache, rateLimits, timers, debounceTimers,
                         pendingRequests, ops>>

\* a searchAssets call that finds an entry as old as the TTL or older removes
\* it and schedules the provider chain
SearchStaleRule ==
    \A i \in SearchIds, query \in Queries :
       (searchCalled(i, query) /\ searchKey(query) \in DOMAIN cache
                                /\ ~freshSearch(query)) =>
          /\ searchKey(query) \notin DOMAIN cache'
          /\ req'[i].state = "scheduled"
          /\ searchKey(query) \in DOMAIN debounceTimers'
          /\ \E tm \in timers' : tm.owner = i /\ tm.fireAt = now + SearchDebounce

\* searchAssets call i, which had found a stale entry, is resolved in this step
refetched(i) ==
    /\ req[i].state # "resolved"
    /\ req'[i].state = "resolved"
    /\ req'[i].stale
    /\ ~req'[i].details

\* the chain's result is in the cache under the key of call i, stored now
storedFresh(i) ==
    /\ req'[i].key \in DOMAIN cache'
    /\ cache'[req'[i].key].data = req'[i].result.data
    /\ cache'[req'[i].key].timestamp = now'

\* C15 as stated: a searchAssets call made before the TTL of the cached result
\* of its normalized query has elapsed returns the cached value without
\* invoking the provider chain; a call made after the TTL has elapsed
\* invalidates the entry, runs the provider chain again and stores the fresh
\* result
C15_RefetchAlwaysStored ==
    [][/\ SearchHitRule
       /\ SearchStaleRule
       /\ \A i \in SearchIds : refetched(i) =>
             /\ ops'[req'[i].op].state = "fulfilled"
             /\ storedFresh(i)]_vars

\* C15 amended: as above, but the fresh result is stored only when it is not
\* empty; an empty fresh result leaves no entry under the key
C15_RefetchStoredIfNonEmpty ==
    [][/\ SearchHitRule
       /\ SearchStaleRule
       /\ \A i \in SearchIds : refetched(i) =>
             /\ ops'[req'[i].op].state = "fulfilled"
             /\ req'[i].result.data = ops'[req'[i].op].results
             /\ Len(req'[i].result.data) > 0 => storedFresh(i)
             /\ Len(req'[i].result.data) = 0 => req'[i].key \notin DOMAIN cache']_vars

\* a call found its entry expired, the chain ran again and its non-empty
\* result is in the cache
C15_Witness ==
    \E i \in SearchIds :
       /\ req[i].state = "resolved"
       /\ req[i].stale
       /\ ~req[i].details
       /\ req[i].via = "search"
       /\ Len(req[i].result.data) > 0
       /\ req[i].key \in DOMAIN cache
       /\ cache[req[i].key].timestamp > req[i].at

\* in this step the alphavantage request of chain o is answered
alphaVantageAnswered(o) ==
    /\ ops[o].state = "running"
    /\ ops[o].pc = "alphavantage"
    /\ ops'[o].pc # "alphavantage"

\* in this step chain o ends
chainEnds(o) == ops[o].state # "fulfilled" /\ ops'[o].state = "fulfilled"

\* the records chain o holds after this step come from the source
recordsFrom(o, source) ==
    /\ Len(ops'[o].results) > 0
    /\ \A k \in DOMAIN ops'[o].results : ops'[o].results[k].source = source

\* the finnhub bucket of the current window
finnhubBucket(limits, t) == currentWindow(limits, "finnhub", t)

failedAt(o, source) ==
    \E k \in DOMAIN ops'[o].answers :
       ops'[o].answers[k] = [source |-> source, outcome |-> "failed"]

\* no provider request of chain o brought a record
nothingFound(o) ==
    \A k \in DOMAIN ops'[o].answers : ops'[o].answers[k].outcome # "hit"

\* the records chain o ends with are the rows of the static table that match
\* its query
endsWithStaticTable(o) ==
    LET rows == fallbackMatches(ops'[o].query)
    IN /\ Len(ops'[o].results) = Len(rows)
       /\ \A k \in DOMAIN rows :
             /\ ops'[o].results[k].symbol = rows[k].symbol
             /\ ops'[o].results[k].source = "fallback"

\* C17: an error from one provider never aborts the chain: when alphavantage
\* fails, finnhub is still attempted, subject to its own rate check; when that
\* one also fails or yields nothing the static table is consulted; and no
\* call is ever rejected
C17_ErrorsDoNotAbort ==
    [][/\ \A o \in SearchIds :
             /\ (alphaVantageAnswered(o) /\ failedAt(o, "alphavantage")) =>
                   LET bucket == finnhubBucket(rateLimits, now)
                       passes == /\ ~inBackoff(bucket, now)
                                 /\ bucket.count < SearchMaxCalls
                   IN IF passes THEN ops'[o].pc = "finnhub" /\ ops'[o].state = "running"
                      ELSE chainEnds(o) /\ endsWithStaticTable(o)
             /\ (chainEnds(o) /\ nothingFound(o)) => endsWithStaticTable(o)
       /\ \A i \in SearchIds : req'[i].state # "rejected"]_vars

\* both providers failed and the chain ended with rows of the static table
C17_Witness ==
    \E o \in SearchIds :
       /\ ops[o].state = "fulfilled"
       /\ ops[o].answers = <<[source |-> "alphavantage", outcome |-> "failed"],
                             [source |-> "finnhub", outcome |-> "failed"]>>
       /\ Len(ops[o].results) > 0
       /\ ops[o].results[1].source = "fallback"

IBM == <<"I", "B", "M">>

\* searchAssets call i reached the provider chain and the chain has ended
searchDone(i) ==
    /\ req[i].state = "resolved"
    /\ req[i].via = "search"
    /\ ~req[i].details

\* every provider of the chain that answered call i was rate-limited, failed
\* or brought nothing
chainExhausted(i) ==
    \A k \in DOMAIN ops[req[i].op].answers :
       ops[req[i].op].answers[k].outcome # "hit"

\* C18: when every provider is rate-limited or errors, searchAssets falls
\* through to the static table: a call for "IBM" whose debounce timer ran is
\* resolved as soon as its chain has ended, with a result that contains the
\* symbol IBM at a non-zero price
C18_IbmFromStaticTable ==
    \A i \in SearchIds :
       /\ (req[i].state = "attached" /\ ~req[i].details)
             => ops[req[i].op].state = "running"
       /\ (searchDone(i) /\ normalizedQuery(req[i].query) = IBM /\ chainExhausted(i))
             => \E k \in DOMAIN req[i].result.data :
                   /\ req[i].result.data[k].symbol = IBM
                   /\ req[i].result.data[k].source = "fallback"
                   /\ req[i].result.data[k].price > 0

\* both providers were rate-limited and the call for "ibm " got IBM from the
\* static table
C18_Witness ==
    \E i \in SearchIds :
       /\ searchDone(i)
       /\ req[i].query = <<"i", "b", "m", " ">>
       /\ ops[req[i].op].answers = <<>>
       /\ Len(req[i].result.data) = 1
       /\ req[i].result.data[1].symbol = IBM
       /\ req[i].result.data[1].price > 0

\* a symbol no provider knows and no row of the static table matches
Absent == <<"Z", "Z", "Z">>

\* call i, of searchAssets or getAssetDetails, reached the provider chain, the
\* chain has ended, and it found the symbol nowhere
foundNowhere(i) ==
    /\ req[i].state = "resolved"
    /\ req[i].via = "search"
    /\ normalizedQuery(req[i].query) = Absent
    /\ chainExhausted(i)

\* C19: a symbol that is absent from every provider and from the static table
\* is surfaced as an explicit empty result and never as an exception: a
\* searchAssets call is resolved with the empty list and a getAssetDetails
\* call with null, as soon as the chain the call reached has ended, and no
\* call is rejected
C19_AbsentIsEmptyResult ==
    \A i \in SearchIds :
       /\ req[i].state # "rejected"
       /\ req[i].state = "attached" => ops[req[i].op].state = "running"
       /\ foundNowhere(i) =>
             IF req[i].details
             THEN req[i].result.data = Null
             ELSE req[i].result.data = <<>>

\* a searchAssets call got the empty list and a getAssetDetails call got null
\* for the absent symbol
C19_Witness ==
    \E i, j \in SearchIds :
       /\ foundNowhere(i) /\ ~req[i].details /\ req[i].result.data = <<>>
       /\ foundNowhere(j) /\ req[j].details /\ req[j].result.data = Null

\* C25: every provider failure that searchAssets recovers from is reported to
\* the audit logger as an error event with the provider's name and the reason
\* of the failure: the entry logged for a provider whose request failed is an
\* 'error' entry, not a 'hit' entry
C25_FailuresAudited ==
    \A o \in SearchIds :
       \A k \in DOMAIN ops[o].answers :
          ops[o].answers[k].outcome = "failed" =>
             /\ ops[o].audit[k].apiName = ops[o].answers[k].source
             /\ ops[o].audit[k].cacheStatus = "error"
             /\ ops[o].audit[k].errorDetails # Undefined

\* C26: a searchAssets or getAssetDetails call whose debounce timer was
\* cleared by a later call with the same key is never settled afterwards,
\* neither resolved nor rejected: it keeps no timer, is attached to no
\* operation, and is still waiting when nothing is left to happen
C26_SupersededWaitsForever ==
    \A i \in SearchIds :
       req[i].superseded =>
          /\ req[i].state = "scheduled"
          /\ req[i].op = 0
          /\ \A tm \in timers : tm.owner # i

\* a getAssetDetails call superseded by an identical later call: the later
\* call has its answer, nothing is pending, and the earlier one still waits
C26_Witness ==
    \E i, j \in SearchIds :
       /\ i < j
       /\ req[i].superseded /\ req[i].details /\ req[i].state = "scheduled"
       /\ req[j].details /\ req[j].query = req[i].query
       /\ req[j].state = "resolved" /\ req[j].via = "search"
       /\ mdQuiescent

----------------------------------------------------------------------------
\* EnhancedMarketDataService: getCachedData and setCachedData called directly

\* bounds of the cache runs
CacheStep   == 60000     \* milliseconds the clock advances at a time
CacheMaxNow == 360000    \* the clock stops here

CacheKeys    == {"asset_IBM", "search_IBM"}
CacheClasses == {"intraday", "search"}
CacheValues  == {"v1", "v2"}

InitCache ==
    /\ EvalIdle
    /\ EngIdle
    /\ MdIdle

\* setCachedData(key, data, cacheType)
CacheSet(key, data, class) ==
    /\ cache' = setCachedData(cache, key, data, CACHE_DURATIONS[class], now)
    /\ UNCHANGED <<evalVars, engVars, now, rateLimits, timers, debounceTimers,
                   pendingRequests, req, ops, rlLog, read>>

\* getCachedData(key, cacheType)
CacheGet(key, class) ==
    /\ LET answer == getCachedData(cache, key, CACHE_DURATIONS[class], now)
       IN /\ cache' = answer.cache
          /\ read' = [kind |-> "read", key |-> key, class |-> class, at |-> now,
                      hit |-> answer.hit, data |-> answer.data,
                      had |-> key \in DOMAIN cache]
    /\ UNCHANGED <<evalVars, engVars, now, rateLimits, timers, debounceTimers,
                   pendingRequests, req, ops, rlLog>>

CacheAdvance ==
    /\ now + CacheStep <= CacheMaxNow
    /\ now' = now + CacheStep
    /\ UNCHANGED <<evalVars, engVars, cache, rateLimits, timers, debounceTimers,
                   pendingRequests, req, ops, rlLog, read>>

NextCache ==
    \/ \E key \in CacheKeys, data \in CacheValues, class \in CacheClasses :
          CacheSet(key, data, class)
    \/ \E key \in CacheKeys, class \in CacheClasses : CacheGet(key, class)
    \/ CacheAdvance

SpecCache == InitCache /\ [][NextCache]_vars

\* the entry under key is there and younger than the TTL of the class
freshUnder(key, class) ==
    key \in DOMAIN cache /\ now - cache[key].timestamp < CACHE_DURATIONS[class]

\* a read answers with the stored value exactly when the entry is fresh under
\* the class of the read, and otherwise misses and leaves no entry under key
CacheReadRule ==
    \A key \in CacheKeys, class \in CacheClasses :
       CacheGet(key, class) =>
          /\ read'.hit <=> freshUnder(key, class)
          /\ freshUnder(key, class) => read'.data = cache[key].data /\ cache' = cache
          /\ ~freshUnder(key, class) => cache' = Drop(cache, key)

\* an entry leaves the store only through a read of its key
CacheRemovalRule ==
    \A key \in DOMAIN cache :
       key \notin DOMAIN cache' => \E class \in CacheClasses : CacheGet(key, class)

\* C14: getCachedData returns the stored value if and only if an entry exists
\* and its age is strictly less than the TTL of the class passed to the read;
\* an entry whose age is greater than or equal to that TTL yields a miss and is
\* deleted by that same read, and entries that are never read are never removed
C14_CacheFreshness == [][CacheReadRule /\ CacheRemovalRule]_vars

\* a read found an entry too old for its class, missed, and the entry is gone
C14_Witness ==
    /\ read.kind = "read"
    /\ read.had
    /\ ~read.hit
    /\ read.key \notin DOMAIN cache
    /\ \E other \in DOMAIN cache : now - cache[other].timestamp >= CACHE_DURATIONS.search

----------------------------------------------------------------------------
\* The confidence scorers: calculateConfidenceScore of the analysis route and
\* AutomationEngine.calculateRiskAdjustedConfidence

MaxNews     == 6     \* longest assetData.news that is enumerated
MaxAnalysts == 4     \* longest assetData.analystRatings that is enumerated

Max(a, b) == IF a >= b THEN a ELSE b

\* Math.abs
abs(x) == IF x < 0 THEN 0 - x ELSE x

\* an optional field is <<>> when it is missing and <<value>> when it is there;
\* `field && field > 0`
positive(field) == Len(field) > 0 /\ field[1] > 0

\* the truth value JavaScript gives an optional number and an optional string
truthyNumber(field) == Len(field) > 0 /\ field[1] # 0
truthyString(field) == Len(field) > 0 /\ field[1] # ""

\* mutant of capped: the lower limit is forgotten
cappedAbove(score) == Min(85, score)

\* Math.max(45, Math.min(85, score))
capped(score) == Max(45, Min(85, score))

\* baseScore of calculateConfidenceScore before the last line; every addend
\* is an integer, so Math.round changes nothing
baseScore(assetData, technicalIndicators, newsSentiment) ==
    60
    + (IF positive(assetData.volume) THEN 5 ELSE 0)
    + (IF positive(assetData.marketCap) THEN 5 ELSE 0)
    + (IF truthyNumber(assetData.pe) THEN 5 ELSE 0)
    + (IF truthyString(assetData.sector) THEN 5 ELSE 0)
    + (IF assetData.news > 0
       THEN Min(assetData.news * 2, 10)
            + (IF newsSentiment.overall # "NEUTRAL" THEN 3 ELSE 0)
       ELSE 0)
    + (IF technicalIndicators.rsi > 30 /\ technicalIndicators.rsi < 70 THEN 5 ELSE 0)
    + (IF abs(technicalIndicators.priceVsMA20) < 10 THEN 3 ELSE 0)
    + (IF technicalIndicators.volatility < 20 THEN 5
       ELSE IF technicalIndicators.volatility > 40 THEN 0 - 5 ELSE 0)
    + (IF Len(assetData.analystRatings) > 0 /\ assetData.analystRatings[1] > 0
       THEN Min(assetData.analystRatings[1] * 3, 10)
       ELSE 0)

calculateConfidenceScore(assetData, technicalIndicators, newsSentiment) ==
    capped(roundDiv(baseScore(assetData, technicalIndicators, newsSentiment), 1))

\* baseConfidence before the two multiplications
baseConfidence(technicalIndicators, marketSentiment) ==
    60
    + (IF technicalIndicators.rsi > 30 /\ technicalIndicators.rsi < 70 THEN 10 ELSE 0)
    + (IF abs(technicalIndicators.macd) < 5 THEN 5 ELSE 0)
    + (IF marketSentiment.overall # "NEUTRAL" THEN 8 ELSE 0)
    + (IF marketSentiment.impact = "HIGH" THEN 5 ELSE 0)

\* { LOW: 0.8, MEDIUM: 1.0, HIGH: 1.2 }[riskTolerance] || 1.0, in tenths
riskMultiplier(riskTolerance) ==
    CASE riskTolerance = "LOW" -> 8
      [] riskTolerance = "MEDIUM" -> 10
      [] riskTolerance = "HIGH" -> 12
      [] OTHER -> 10

\* the factor of the volatility adjustment, in tenths: the two conditions
\* exclude each other
volatilityFactor(technicalIndicators) ==
    IF technicalIndicators.volatility > 30 THEN 9
    ELSE IF technicalIndicators.volatility < 15 THEN 11
    ELSE 10

\* Math.round(baseConfidence * riskMultiplier), the product taken exactly
adjustedConfidence(technicalIndicators, marketSentiment, riskTolerance) ==
    roundDiv(baseConfidence(technicalIndicators, marketSentiment)
               * volatilityFactor(technicalIndicators)
               * riskMultiplier(riskTolerance), 100)

calculateRiskAdjustedConfidence(assetData, technicalIndicators, marketSentiment, riskTolerance) ==
    capped(adjustedConfidence(technicalIndicators, marketSentiment, riskTolerance))

InitScore ==
    /\ EvalIdle
    /\ EngIdle
    /\ MdIdle

\* one call of calculateConfidenceScore, with the arguments that are
\* enumerated; a behaviour holds one scorer call
CalculateConfidenceScore ==
    /\ scIn = NoScore
    /\ \E volume, marketCap \in {<<>>, <<1500>>}, pe \in {<<>>, <<0>>, <<1500>>},
          sector \in {<<>>, <<"">>, <<"Technology">>}, news \in {0, 1, MaxNews},
          analystRatings \in {<<>>} \cup {<<n>> : n \in 0..MaxAnalysts},
          rsi \in {30, 50}, priceVsMA20 \in {0 - 10, 0, 12},
          volatility \in {10, 30, 45}, overall \in {"NEUTRAL", "POSITIVE", "NEGATIVE"} :
       LET assetData ==
               [volume |-> volume, marketCap |-> marketCap, pe |-> pe, sector |-> sector,
                news |-> news, analystRatings |-> analystRatings]
           technicalIndicators ==
               [rsi |-> rsi, priceVsMA20 |-> priceVsMA20, volatility |-> volatility]
           newsSentiment == [overall |-> overall]
       IN /\ scIn' = [kind |-> "analysis", assetData |-> assetData,
                      technicalIndicators |-> technicalIndicators,
                      newsSentiment |-> newsSentiment]
          /\ scOut' = [kind |-> "score",
                       raw |-> baseScore(assetData, technicalIndicators, newsSentiment),
                       value |-> calculateConfidenceScore(assetData, technicalIndicators,
                                                          newsSentiment)]
          /\ UNCHANGED <<evIn, evOut, engVars, mdVars>>

\* one call of calculateRiskAdjustedConfidence
CalculateRiskAdjustedConfidence ==
    /\ scIn = NoScore
    /\ \E rsi \in {25, 30, 50, 70}, macd \in {0 - 5, 0, 4, 12},
          volatility \in {10, 15, 20, 30, 35, 40, 45},
          overall \in {"NEUTRAL", "POSITIVE", "NEGATIVE"},
          impact \in {"LOW", "MEDIUM", "HIGH"},
          riskTolerance \in {"LOW", "MEDIUM", "HIGH", "AGGRESSIVE"} :
       LET technicalIndicators == [rsi |-> rsi, macd |-> macd, volatility |-> volatility]
           marketSentiment == [overall |-> overall, impact |-> impact]
       IN /\ scIn' = [kind |-> "risk", technicalIndicators |-> technicalIndicators,
                      marketSentiment |-> marketSentiment,
                      riskTolerance |-> riskTolerance]
          /\ scOut' = [kind |-> "score",
                       raw |-> adjustedConfidence(technicalIndicators, marketSentiment,
                                                  riskTolerance),
                       value |-> calculateRiskAdjustedConfidence(Null, technicalIndicators,
                                                 marketSentiment, riskTolerance)]
          /\ UNCHANGED <<evIn, evOut, engVars, mdVars>>

\* ---- calculateRSI of the analysis route and AutomationEngine.calculateRSI
MaxSamples == 16     \* longest price series that is enumerated

\* a JavaScript number that is the fraction num / den, and NaN
Number(num, den) == [nan |-> FALSE, num |-> num, den |-> den]
NaN == [nan |-> TRUE, num |-> 0, den |-> 1]

\* the sum the loop `for (let i = 1; i <= period; i++)` leaves in gains
\* (sign = 1) and in losses (sign = -1); prices[i] of the code is prices[i + 1]
\* here, and every index read is within the array
sumOfChanges(prices, period, sign) ==
    LET change(i) == prices[i + 1] - prices[i]
        sum[i \in 0..period] ==
            IF i = 0 THEN 0
            ELSE sum[i - 1] + (IF change(i) > 0
                               THEN (IF sign = 1 THEN change(i) ELSE 0)
                               ELSE (IF sign = 1 THEN 0 ELSE 0 - change(i)))
    IN sum[period]

\* part_003 l.55-79; 100 - 100 / (1 + avgGain / avgLoss) is
\* 100 * gains / (gains + losses) when losses is not zero
calculateRSI(prices, period) ==
    IF Len(prices) < period + 1 THEN Number(50, 1)
    ELSE LET gains  == sumOfChanges(prices, period, 1)
             losses == sumOfChanges(prices, period, -1)
         IN IF losses = 0 THEN Number(100, 1)
            ELSE Number(100 * gains, gains + losses)

\* automation-engine.ts l.420-431: the guard lets a series of 14 prices through
\* and the loop reads prices[14], which is undefined; the change is then NaN,
\* `change > 0` is false, losses becomes NaN and so does the result. With no
\* loss rs is gains / 0: Infinity when there is a gain, which gives 100, and
\* NaN when there is none
engineCalculateRSI(prices) ==
    IF Len(prices) < 14 THEN Number(50, 1)
    ELSE IF Len(prices) < 15 THEN NaN
    ELSE LET gains  == sumOfChanges(prices, 14, 1)
             losses == sumOfChanges(prices, 14, -1)
         IN IF losses = 0 THEN (IF gains > 0 THEN Number(100, 1) ELSE NaN)
            ELSE Number(100 * gains, gains + losses)

\* one call of each calculateRSI on one price series: n prices that start
\* near `start`, move by `step` and, with `swing`, turn at every other sample
CalculateRSI ==
    /\ scIn = NoScore
    /\ \E n \in 0..MaxSamples, start \in {100, 200}, step \in {0 - 2, 0, 1, 3},
          swing \in {0, 5} :
        LET prices == [k \in 1..n |-> start + step * k + (IF k % 2 = 0 THEN swing ELSE 0)]
        IN /\ scIn' = [kind |-> "rsi", prices |-> prices]
           /\ scOut' = [kind |-> "rsi",
                        route  |-> calculateRSI(prices, 14),
                        engine |-> engineCalculateRSI(prices)]
           /\ UNCHANGED <<evIn, evOut, engVars, mdVars>>

NextScore ==
    \/ CalculateConfidenceScore
    \/ CalculateRiskAdjustedConfidence
    \/ CalculateRSI

SpecScore == InitScore /\ [][NextScore]_vars

\* the JavaScript number r is the integer v
equals(r, v) == ~r.nan /\ r.num = v * r.den

increasing(prices) == \A k \in 1..(Len(prices) - 1) : prices[k] < prices[k + 1]
decreasing(prices) == \A k \in 1..(Len(prices) - 1) : prices[k] > prices[k + 1]

\* C21: calculateRSI, of the analysis route and of the engine, returns 100
\* for a monotonically increasing series that fills the 14-change window, 0
\* for a monotonically decreasing one, and exactly 50 for every series with
\* fewer than 15 samples
C21_RsiEdgeValues ==
    scOut.kind = "rsi" =>
       /\ (Len(scIn.prices) = 15 /\ increasing(scIn.prices))
             => (equals(scOut.route, 100) /\ equals(scOut.engine, 100))
       /\ (Len(scIn.prices) = 15 /\ decreasing(scIn.prices))
             => (equals(scOut.route, 0) /\ equals(scOut.engine, 0))
       /\ Len(scIn.prices) < 15
             => (equals(scOut.route, 50) /\ equals(scOut.engine, 50))

\* C20: whatever the arguments, all bonuses or all penalties, either
\* confidence scorer returns a value within [45, 85]
C20_ScoreWithinRange ==
    scOut.kind = "score" => scOut.value \in 45..85

\* nothing present, high volatility and LOW risk tolerance: the weighted
\* confidence is below 45 and 45 is returned
C20_Witness ==
    /\ scIn.kind = "risk"
    /\ scIn.riskTolerance = "LOW"
    /\ scIn.technicalIndicators.volatility > 30
    /\ scIn.marketSentiment.overall = "NEUTRAL"
    /\ scOut.raw < 45
    /\ scOut.value = 45

----------------------------------------------------------------------------
\* The automation settings route: POST stores the settings of the session's user

\* a field of the request body is a record: a number n, a string (text, the
\* sequence of its characters), null, or undefined when the field is missing

\* the value of the longest run of digits text starts with, after a sign;
\* NaN when there is no digit. whole = TRUE asks that nothing follows the run
leadingInteger(text, whole) ==
    LET negative == Len(text) > 0 /\ Head(text) = "-"
        body     == IF negative THEN Tail(text) ELSE text
        DigitChars == <<"0", "1", "2", "3", "4", "5", "6", "7", "8", "9">>
        isDigit(ch) == \E d \in 1..10 : DigitChars[d] = ch
        digitOf(ch) == (CHOOSE d \in 1..10 : DigitChars[d] = ch) - 1
        run[k \in 0..Len(body)] ==
            IF k = 0 THEN 0
            ELSE IF run[k - 1] = k - 1 /\ isDigit(body[k]) THEN k ELSE run[k - 1]
        value[k \in 0..Len(body)] ==
            IF k = 0 THEN 0 ELSE value[k - 1] * 10 + digitOf(body[k])
        n == run[Len(body)]
    IN IF n = 0 \/ (whole /\ n < Len(body)) THEN NaN
       ELSE Number(IF negative THEN 0 - value[n] ELSE value[n], 1)

\* parseInt(v): v is turned into a string first; "undefined" and "null" start
\* with no digit. The numbers enumerated are integers
parseInt(v) ==
    CASE v.kind = "number" -> Number(v.n, 1)
      [] v.kind = "string" -> leadingInteger(trimStart(v.text), FALSE)
      [] OTHER -> NaN

\* parseFloat(v) differs from parseInt(v) from the decimal point on; the
\* texts enumerated have none
parseFloat(v) == parseInt(v)

\* ToNumber(v), which `v < 0` and `v > 100` apply to v: the whole trimmed text
\* has to be a number, the empty text and null are 0, undefined is NaN
ToNumber(v) ==
    CASE v.kind = "number" -> Number(v.n, 1)
      [] v.kind = "string" ->
            IF trim(v.text) = <<>> THEN Number(0, 1)
            ELSE leadingInteger(trim(v.text), TRUE)
      [] v.kind = "null" -> Number(0, 1)
      [] OTHER -> NaN

\* part_004 l.145-168: the message of the first check that fails, "" when
\* none does; maxTradeAmountAuto has no upper limit, which is the largest
\* amount enumerated here
validationError(body) ==
    LET outside(v, low, high) ==
            LET x == ToNumber(v) IN ~x.nan /\ (x.num < low \/ x.num > high)
    IN IF outside(body.buyConfidenceThreshold, 0, 100)
       THEN "Buy confidence threshold must be between 0-100"
       ELSE IF outside(body.sellConfidenceThreshold, 0, 100)
       THEN "Sell confidence threshold must be between 0-100"
       ELSE IF outside(body.maxTradeAmountAuto, 0, 1000000)
       THEN "Max trade amount must be positive"
       ELSE IF outside(body.maxTradesPerDay, 0, 100)
       THEN "Max trades per day must be between 0-100"
       ELSE IF outside(body.stopLossPercent, 0, 50)
       THEN "Stop loss must be between 0-50%"
       ELSE IF outside(body.takeProfitPercent, 0, 100)
       THEN "Take profit must be between 0-100%"
       ELSE ""

InitSettings ==
    /\ EvalIdle
    /\ MdIdle
    /\ runningAnalyses = {}
    /\ call = <<>>
    /\ users = [u \in {"u1"} |-> SeedUser]
    /\ trades = {}
    /\ alerts = {}
    /\ activities = {}
    /\ analyses = {}

\* part_004 l.128-197, one request. The body is the one the settings page
\* sends with up to two fields replaced by a number below, inside or above
\* every range, a numeric text, a text that is no number, a text that starts
\* like one, null, or nothing. The store refuses a NaN (a
\* PrismaClientValidationError), which the catch block turns into a 500
PostAutomationSettings ==
    LET JsNumber(n)    == [kind |-> "number", n |-> n]
        JsString(text) == [kind |-> "string", text |-> text]
        SettingFields ==
            {"buyConfidenceThreshold", "sellConfidenceThreshold", "maxTradeAmountAuto",
             "maxTradesPerDay", "stopLossPercent", "takeProfitPercent"}
        SentBody ==
            [buyConfidenceThreshold  |-> JsNumber(80),
             sellConfidenceThreshold |-> JsNumber(85),
             maxTradeAmountAuto      |-> JsNumber(250),
             maxTradesPerDay         |-> JsNumber(3),
             stopLossPercent         |-> JsNumber(4),
             takeProfitPercent       |-> JsNumber(12),
             requireManualConfirm    |-> FALSE]
        FieldValues ==
            {JsNumber(0 - 1), JsNumber(20), JsNumber(101),
             JsString(<<"3", "0">>), JsString(<<"a", "b", "c">>),
             JsString(<<"1", "2", "a", "b", "c">>),
             [kind |-> "null"], [kind |-> "undefined"]}
    IN
    /\ scIn = NoScore
    /\ \E session \in {"u1", "none"}, first, second \in SettingFields,
          value, other \in FieldValues, confirm \in {TRUE, FALSE} :
        LET body == [SentBody EXCEPT ![second] = other, ![first] = value,
                                     !.requireManualConfirm = confirm]
            \* l.171-181: the data handed to prisma.user.update
            data ==
                [buyConfidenceThreshold  |-> parseInt(body.buyConfidenceThreshold),
                 sellConfidenceThreshold |-> parseInt(body.sellConfidenceThreshold),
                 maxTradeAmountAuto      |-> parseFloat(body.maxTradeAmountAuto),
                 maxTradesPerDay         |-> parseInt(body.maxTradesPerDay),
                 stopLossPercent         |-> parseFloat(body.stopLossPercent),
                 takeProfitPercent       |-> parseFloat(body.takeProfitPercent)]
            row  == [users["u1"] EXCEPT
                       !.buyConfidenceThreshold  = data.buyConfidenceThreshold.num,
                       !.sellConfidenceThreshold = data.sellConfidenceThreshold.num,
                       !.maxTradeAmountAuto      = data.maxTradeAmountAuto.num,
                       !.maxTradesPerDay         = data.maxTradesPerDay.num,
                       !.stopLossPercent         = data.stopLossPercent.num,
                       !.takeProfitPercent       = data.takeProfitPercent.num,
                       !.requireManualConfirm    = body.requireManualConfirm]
        IN /\ scIn' = [kind |-> "settings", session |-> session, body |-> body,
                       stored |-> users["u1"]]
           /\ IF session = "none"
              THEN /\ scOut' = [kind |-> "response", status |-> 401, error |-> "Unauthorized"]
                   /\ UNCHANGED users
              ELSE IF validationError(body) # ""
              THEN /\ scOut' = [kind |-> "response", status |-> 400,
                                error |-> validationError(body)]
                   /\ UNCHANGED users
              ELSE IF \E f \in SettingFields : data[f].nan
              THEN /\ scOut' = [kind |-> "response", status |-> 500,
                                error |-> "Internal server error"]
                   /\ UNCHANGED users
              ELSE /\ scOut' = [kind |-> "response", status |-> 200, error |-> ""]
                   /\ users' = [users EXCEPT !["u1"] = row]
           /\ UNCHANGED <<evIn, evOut, mdVars, runningAnalyses, call, trades, alerts,
                          activities, analyses>>

NextSettings == PostAutomationSettings

SpecSettings == InitSettings /\ [][NextSettings]_vars

\* the value of a field is missing, is no number, or is outside low..high
malformed(v, low, high) ==
    \/ v.kind \in {"undefined", "null"}
    \/ v.kind = "number" /\ (v.n < low \/ v.n > high)
    \/ v.kind = "string"
          /\ (ToNumber(v).nan \/ ToNumber(v).num < low \/ ToNumber(v).num > high)

malformedBody(body) ==
    \/ malformed(body.buyConfidenceThreshold, 0, 100)
    \/ malformed(body.sellConfidenceThreshold, 0, 100)
    \/ malformed(body.maxTradeAmountAuto, 0, 1000000)
    \/ malformed(body.maxTradesPerDay, 0, 100)
    \/ malformed(body.stopLossPercent, 0, 50)
    \/ malformed(body.takeProfitPercent, 0, 100)

\* C23: the settings update answers every body with a threshold or a
\* percentage that is out of range, missing or not a number with a validation
\* error, and leaves the stored settings of the user as they were
C23_MalformedRejected ==
    (scOut.kind = "response" /\ scIn.session = "u1" /\ malformedBody(scIn.body))
    => (scOut.status = 400 /\ users["u1"] = scIn.stored)

====
